---- MODULE Spec2Model ----
(***************************************************************************)
(* Bhojpur GoRPA: the build command (cache composition, scheduler, local   *)
(* and remote caches), the loader (arguments, components, cycle detection) *)
(* the versions of packages, and the commands around them (vet, fmt, exec,  *)
(* describe, provenance assert, build --watch).                            *)
(*                                                                         *)
(* The specifications share the module's variables:                        *)
(*   Spec        one build command over every dependency graph:            *)
(*               getBuildOpts, Build, the builders                         *)
(*   SpecRuns    a sequence of build commands over the chain and the flat  *)
(*               graph, one task at a time                                 *)
(*   SpecCycle   loadApplication's cycle detection over the package index  *)
(*   SpecCorrupt the same loop over an index that misses packages          *)
(*   SpecCache   one insert into the local cache against concurrent readers*)
(*   SpecNested  the arguments loadApplication hands to the components of  *)
(*               the root and of a nested application                      *)
(*   SpecVersion two loads of an application, a definition, a source       *)
(*               pattern or a source file changed in between               *)
(*   SpecArgs    two loads of a component with build arguments, the        *)
(*               constants or the -D flags changed in between              *)
(*   SpecOnce    concurrent callers of Version() on one package            *)
(*   SpecFilter  one pass of filterExcludedComponents over the dependencies *)
(*               of a package                                              *)
(*   SpecFind    FindApplication and FindNestedApplications over a         *)
(*               repository with a nested application                      *)
(*   SpecEnv     buildEnvironmentManifest                                  *)
(*   SpecProv    writeProvenance for the target of a build                 *)
(*   SpecWatch   the goroutine of WatchSources and its channels            *)
(*   SpecVet     the vet command                                           *)
(*   SpecSources loadComponent resolving the sources of one package        *)
(*   SpecDiscover discoverComponents: the loaders, the channel, the        *)
(*               collector                                                 *)
(*   SpecIgnore  .gorpaignore and ShouldIgnoreSource                       *)
(*   SpecWatchLive SpecWatch with a scheduled goroutine                    *)
(*   SpecServe   build --watch --serve                                     *)
(*   SpecAssert  provenance assert                                         *)
(*   SpecFmt     fmt on one BUILD.yaml                                     *)
(*   SpecExec    exec with --dependencies or --transitive-dependencies     *)
(*   SpecDescribe describe dependencies                                    *)
(*   SpecSave    build --save, once or again in watch mode                 *)
(* Packages are numbered; a number stands for the fully qualified name and, *)
(* in the caches, for the version.                                         *)
(* The build runs modelled are those with --dry-run off, provenance        *)
(* enabled in APPLICATION.yaml and GORPA_REMOTE_CACHE_BUCKET set.          *)
(***************************************************************************)
EXTENDS Integers, Sequences, FiniteSets, TLC

\* ------------------------------------------------------------------ bounds
NPkgs == 3          \* packages of the application (build)
MaxTasks == 2       \* largest value given to --max-concurrent-tasks
MaxRuns == 2        \* invocations of the build command
NCyclePkgs == 3     \* packages of the index searched for cycles
NReaders == 3       \* tasks reading the cache while one inserts
NArgPkgs == 2       \* packages of the component loaded with build arguments
NCallers == 3       \* tasks asking for the version of one package

Pkgs == 1..NPkgs
CPkgs == 1..NCyclePkgs
Readers == 1..NReaders
APkgs == 1..NArgPkgs
Callers == 1..NCallers

VARIABLES
    deps,           \* Package.dependencies: package -> set of direct dependencies
    remote,         \* bucket name -> artifacts (package versions) stored there
    fs,             \* directory -> package -> state of <version>.tar.gz
    tmp,            \* package -> state of the temp file its artifact is written to
    cacheLevel,     \* --cache
    addRemote,      \* --add-remote-cache given
    jFlag,          \* --max-concurrent-tasks
    maxTasks,       \* buildOptions.MaxConcurrentTasks
    started,        \* packages handed to their builder, in order of start
    localCacheLoc,  \* directory of the run's FilesystemCache
    phase,          \* position of the build command
    st,             \* package -> state of its task in the running Build
    failures,       \* failed packages of the run, in order of failure
    result,         \* what Build returned
    ops,            \* remote operations that reached a bucket during the run
    prev,           \* cache level and result of the preceding run
    runs,           \* build commands started so far
    \* loader (SpecCycle)
    index,          \* Application.Packages: the package index
    todo,           \* packages the cycle-detection loop has not visited yet
    loadState,      \* position of loadApplication
    loadErr,        \* the cycle carried by the load error
    warned,         \* packages whose cycle detection was skipped with a warning
    \* cache readers (SpecCache)
    rpc,            \* reader -> position
    robs,           \* reader -> what it observed
    \* loader and versions (SpecVersion, SpecArgs)
    appl,           \* the application on disk and the command line of the next load
    loads,          \* what each load so far was given and returned
    \* argument defaults (SpecNested)
    nested,         \* GORPA_NESTED_APPLICATION set
    rootWS,         \* the application named with --application
    buildArgs,      \* the -D flags of the command line
    defaultArgs,    \* application -> defaultArgs of its APPLICATION.yaml
    args,           \* the Arguments map getBuildArgs returned, shared by the loads
    toLoad,         \* applications still to be passed to loadApplication
    loadedArgs,     \* loaded application -> the arguments its components got
    \* the version cache of one package (SpecOnce)
    source,         \* content of the package's source file
    once,           \* state of the package's one-shot guard
    versionCache,   \* Package.versionCache
    computations,   \* how often the version was computed
    vpc,            \* caller -> position in Version()
    got,            \* caller -> what Version() returned
    \* one pass of filterExcludedComponents over a dependency list (SpecFilter)
    flt,
    \* nested applications (SpecFind)
    tree,           \* the repository on disk and the command line
    find,           \* position and result of FindApplication or FindNestedApplications
    \* the environment manifest (SpecEnv)
    env,            \* buildEnvironmentManifest: its arguments, its map and its result
    \* the provenance bundle of one package (SpecProv)
    prov,           \* writeProvenance: the cache, the Git state, the set and the file
    \* the source watcher (SpecWatch)
    watch,          \* WatchSources: the channels, the context and the goroutine
    \* gorpa vet (SpecVet)
    vet,            \* vetCmd: the flag, what the checks return, findings, errors, exit code
    \* the sources of one package (SpecSources)
    lc,             \* loadComponent: the files, the patterns, the complete sources
    \* the commands and the loaders around them
    disc,           \* discoverComponents: the loader goroutines, the channel, the collector
    ign,            \* .gorpaignore and the paths ShouldIgnoreSource is asked about
    srv,            \* build --watch --serve: the watch loop, the servers, the listen address
    asrt,           \* provenance assert: the flags, the bundle, the failures
    fmtf,           \* fmt: the BUILD.yaml file, the flags, what was written
    exe,            \* exec: the flags, the selected packages, where the command ran
    desc,           \* describe dependencies: the index, the trees printed
    sav             \* build --save: the artifact, the file before and after

buildVars == <<remote, fs, tmp, cacheLevel, addRemote, jFlag, maxTasks, started,
               localCacheLoc, phase, st, failures, result, ops, prev, runs>>
loadVars == <<index, todo, loadState, loadErr, warned>>
readVars == <<rpc, robs>>
defVars == <<appl, loads>>
argVars == <<nested, rootWS, buildArgs, defaultArgs, args, toLoad, loadedArgs>>
onceVars == <<source, once, versionCache, computations, vpc, got>>
versionVars == <<defVars, argVars, onceVars>>
toolVars == <<flt, tree, find, env, prov, watch, vet, lc>>
cmdVars == <<disc, ign, srv, asrt, fmtf, exe, desc, sav>>
vars == <<deps, buildVars, loadVars, readVars, versionVars, toolVars, cmdVars>>

\* ------------------------------------------------------------------ graph
\* Package.GetTransitiveDependencies
RECURSIVE Reach(_, _, _)
Reach(d, frontier, seen) ==
    IF frontier = {} THEN seen
    ELSE LET nxt == (UNION {d[p] : p \in frontier}) \ seen
         IN Reach(d, nxt, seen \cup nxt)

GetTransitiveDependencies(d, p) == Reach(d, {p}, {})

\* the packages the application can hold after a successful load: no cycles
AcyclicGraphs == {d \in [Pkgs -> SUBSET Pkgs] : \A p \in Pkgs : d[p] \subseteq 1..(p - 1)}

\* the package given to the build command
Target == NPkgs

Closure(d) == GetTransitiveDependencies(d, Target) \cup {Target}

\* ------------------------------------------------------------------ caches
CacheLevels == {"none", "local", "remote-pull", "remote-push", "remote"}
LevelInputs == CacheLevels \cup {"bogus"}
Dirs == {"cachedir", "tempdir"}
Buckets == {"primary", "extra"}
NoRemoteCache == [kind |-> "NoRemoteCache", bucket |-> "-"]
GSUtilRemoteCache(b) == [kind |-> "GSUtilRemoteCache", bucket |-> b]

\* FilesystemCache.Location: (path, exists); the path is the package here
Location(files, p) == files[p] # "absent"

\* getRemoteCache
getRemoteCache(envBucket) ==
    IF envBucket # "" THEN GSUtilRemoteCache(envBucket) ELSE NoRemoteCache

\* the environment of the modelled runs
EnvRemoteCacheBucket == "primary"
ProvenanceEnabled == TRUE

\* getBuildOpts: the switch over the cache level
WrapRemoteCache(level, rc) ==
    CASE level \in {"none", "local"} -> NoRemoteCache
      [] level = "remote-pull" -> [kind |-> "pullOnlyRemoteCache", C |-> rc]
      [] level = "remote-push" -> [kind |-> "pushOnlyRemoteCache", C |-> rc]
      [] OTHER -> rc

\* getBuildOpts: the additional remote caches
AdditionalRemoteCaches(add) ==
    IF add THEN <<[kind |-> "pullOnlyRemoteCache", C |-> GSUtilRemoteCache("extra")]>>
    ELSE <<>>

\* the cache behind the wrappers that a Download reaches, or NoRemoteCache
DownloadTarget(rc) ==
    CASE rc.kind = "pullOnlyRemoteCache" -> rc.C
      [] rc.kind = "pushOnlyRemoteCache" -> NoRemoteCache
      [] OTHER -> rc

\* the cache behind the wrappers that an Upload reaches, or NoRemoteCache
UploadTarget(rc) ==
    CASE rc.kind = "pushOnlyRemoteCache" -> rc.C
      [] rc.kind = "pullOnlyRemoteCache" -> NoRemoteCache
      [] OTHER -> rc

\* RemoteCache.Download: packages present locally are skipped, misses ignored
Download(rc, files, pkgs, rem) ==
    LET t == DownloadTarget(rc)
    IN IF t.kind = "NoRemoteCache" THEN files
       ELSE [p \in Pkgs |->
                IF p \in pkgs /\ ~Location(files, p) /\ p \in rem[t.bucket]
                THEN "complete" ELSE files[p]]

DownloadOps(rc) ==
    LET t == DownloadTarget(rc)
    IN IF t.kind = "NoRemoteCache" THEN {} ELSE {<<"download", t.bucket>>}

\* RemoteCache.Upload: only locally present artifacts are uploaded
Upload(rc, files, pkgs, rem) ==
    LET t == UploadTarget(rc)
    IN IF t.kind = "NoRemoteCache" THEN rem
       ELSE [rem EXCEPT ![t.bucket] = @ \cup {p \in pkgs : files[p] = "complete"}]

UploadOps(rc) ==
    LET t == UploadTarget(rc)
    IN IF t.kind = "NoRemoteCache" THEN {} ELSE {<<"upload", t.bucket>>}

\* the caches Build is given, in the order it asks them
RemoteCaches(level, add) ==
    <<WrapRemoteCache(level, getRemoteCache(EnvRemoteCacheBucket))>>
        \o AdditionalRemoteCaches(add)

RECURSIVE DownloadAll(_, _, _, _)
DownloadAll(rcs, files, pkgs, rem) ==
    IF rcs = <<>> THEN files
    ELSE DownloadAll(Tail(rcs), Download(Head(rcs), files, pkgs, rem), pkgs, rem)

AllDownloadOps(rcs) == UNION {DownloadOps(rcs[i]) : i \in DOMAIN rcs}

NoFiles == [p \in Pkgs |-> "absent"]

\* (mutant) the stream goes straight to the final path
WriteFinalPath(tmpf, files, p, content) ==
    [tmpf |-> tmpf, files |-> [files EXCEPT ![p] = content]]

\* FilesystemCache insert, first half: the stream goes to a temp path
WriteTemp(tmpf, files, p, content) ==
    [tmpf |-> [tmpf EXCEPT ![p] = content], files |-> files]

\* FilesystemCache insert, second half: rename of the temp path into the final path
Rename(tmpf, files, p) ==
    IF tmpf[p] = "absent" THEN [tmpf |-> tmpf, files |-> files]
    ELSE [tmpf |-> [tmpf EXCEPT ![p] = "absent"], files |-> [files EXCEPT ![p] = tmpf[p]]]

\* a failed packaging removes what it wrote to the temp path
Discard(tmpf, files, p) ==
    [tmpf |-> [tmpf EXCEPT ![p] = "absent"], files |-> files]

\* ------------------------------------------------------------------ scheduler
Complete == {"built", "cached"}
InFlight == {"building", "packaging"}
Failed == {"failed", "notbuilt"}
Running(s) == {p \in Pkgs : s[p] \in InFlight}
LocalCache == fs[localCacheLoc]

\* addBuildFlags/getBuildOpts: -j is a uint, handed on as int64
\* (mutant) the option is never handed on: no limit
WithMaxConcurrentTasksUnlimited(j) == 0

WithMaxConcurrentTasks(j) == j

\* the concurrency limit: 0 disables it
LimitReached(limit, running) == limit > 0 /\ Cardinality(running) >= limit

\* a package becomes runnable when the futures of all its dependencies are complete
Runnable(d, s, p) == s[p] = "pending" /\ \A q \in d[p] : s[q] \in Complete

\* (mutant) the cache is not consulted
OnRunnableAlwaysBuild(files, p) == "building"

\* the scheduler's decision for a runnable package
OnRunnable(files, p) == IF Location(files, p) THEN "cached" ELSE "building"

\* a failure cancels every task that has not started
MayStart(fl) == fl = <<>>

\* (mutant) a later failure overwrites the result
OverallResultLast(fl) ==
    IF fl = <<>> THEN [status |-> "ok", pkg |-> 0]
    ELSE [status |-> "failed", pkg |-> fl[Len(fl)]]

\* the overall result is the first failure
OverallResult(fl) ==
    IF fl = <<>> THEN [status |-> "ok", pkg |-> 0]
    ELSE [status |-> "failed", pkg |-> Head(fl)]

\* (mutant) the existence test inverted
getDependenciesProvenanceBundlesInverted(d, files, p) ==
    IF \E dep \in GetTransitiveDependencies(d, p) : Location(files, dep)
    THEN "PkgNotBuiltErr" ELSE "ok"

\* Package.getDependenciesProvenanceBundles: PkgNotBuiltErr for a missing dependency
getDependenciesProvenanceBundles(d, files, p) ==
    IF \E dep \in GetTransitiveDependencies(d, p) : ~Location(files, dep)
    THEN "PkgNotBuiltErr" ELSE "ok"

\* writeProvenance: nothing to do unless provenance is enabled
writeProvenance(enabled, d, files, p) ==
    IF ~enabled THEN "ok" ELSE getDependenciesProvenanceBundles(d, files, p)

NoResult == [status |-> "none", pkg |-> 0]
NoPrev == [level |-> "none", status |-> "none"]

\* artifacts earlier builds left in the buckets
BucketContents == {[b \in Buckets |-> x] : x \in SUBSET Pkgs}

LoadIdle ==
    /\ index = {}
    /\ todo = {}
    /\ loadState = "idle"
    /\ loadErr = <<>>
    /\ warned = {}

ReadIdle ==
    /\ rpc = [r \in Readers |-> "idle"]
    /\ robs = [r \in Readers |-> "none"]

\* ------------------------------------------------------------------ arguments
ArgNames == {"msg"}                 \* build arguments BUILD.yaml files refer to
ConstNames == {"msg", "other"}      \* constants a component can declare
Vals == {"a", "b"}                  \* values of arguments and constants
NotSet == "<not-set>"

\* Arguments: maps from names to values
Maps(names) == UNION {[S -> Vals] : S \in SUBSET names}
EmptyArgs == [k \in {} |-> "a"]

\* the Arguments value held by a variable: Go's nil map or a map
NilArgs == [nil |-> TRUE, m |-> EmptyArgs]
MakeArgs(m) == [nil |-> FALSE, m |-> m]

\* the applications of the nested fixture: the root and one application below it
Apps == {"root", "inner"}

NoAppl == [pkgs |-> <<>>, const |-> EmptyArgs, files |-> <<>>, flags |-> EmptyArgs,
           defaults |-> EmptyArgs]

DefIdle ==
    /\ appl = NoAppl
    /\ loads = <<>>

ArgIdle ==
    /\ nested = FALSE
    /\ rootWS = "root"
    /\ buildArgs = EmptyArgs
    /\ defaultArgs = [a \in Apps |-> EmptyArgs]
    /\ args = NilArgs
    /\ toLoad = <<>>
    /\ loadedArgs = <<>>

OnceIdle ==
    /\ source = "x"
    /\ once = "fresh"
    /\ versionCache = ""
    /\ computations = 0
    /\ vpc = [c \in Callers |-> "idle"]
    /\ got = [c \in Callers |-> ""]

VersionIdle ==
    /\ DefIdle
    /\ ArgIdle
    /\ OnceIdle

\* no pass of filterExcludedComponents is under way
NoFilter == [orig |-> <<>>, arr |-> <<>>, len |-> 0, i |-> 0, pc |-> "idle"]
FilterIdle == flt = NoFilter

\* the root of the repository and the directory of the nested application
RootDir == <<"root">>
InnerDir == <<"root", "/", "inner">>

NoVariant == [from |-> <<>>, name |-> ""]
NoApplication == [Origin |-> <<>>, SelectedVariant |-> NoVariant, ignores |-> {},
                  Components |-> {}, Packages |-> <<>>, err |-> ""]
NoTree == [nested |-> FALSE, variant |-> "", innerWS |-> FALSE, sibling |-> FALSE,
           depOn |-> FALSE, depOut |-> FALSE,
           variants |-> [o \in {RootDir, InnerDir} |-> {}],
           defaultVariant |-> [o \in {RootDir, InnerDir} |-> FALSE]]
NoFind == [pc |-> "idle", wss |-> <<>>, loadedApplications |-> <<>>, res |-> NoApplication]

\* no application is being searched for nested applications
FindIdle ==
    /\ tree = NoTree
    /\ find = NoFind

\* buildEnvironmentManifest is not running
NoManifest == [pkgtpes |-> {}, entries |-> <<>>, failing |-> {}, pc |-> "idle",
               envmf |-> <<>>, todo |-> {}, res |-> {}, sorted |-> <<>>, err |-> ""]
EnvIdle == env = NoManifest

\* writeProvenance is not running
NoProv == [pc |-> "idle", enabled |-> FALSE, slsa |-> FALSE,
           git |-> [Commit |-> "", Origin |-> "", Dirty |-> FALSE],
           archives |-> <<>>, todo |-> {}, bundle |-> {}, attempted |-> FALSE,
           produced |-> [err |-> "", env |-> <<>>], written |-> FALSE, file |-> <<>>,
           err |-> ""]
ProvIdle == prov = NoProv

\* WatchSources has not been called
NoWatch == [pc |-> "idle", cancelled |-> FALSE, closed |-> FALSE, Events |-> <<>>,
            Errors |-> 0, errchan |-> 0, evt |-> <<>>, matcher |-> <<>>,
            changed |-> <<>>, missed |-> <<>>, seen |-> 0]
WatchIdle == watch = NoWatch

\* gorpa vet is not running
NoVet == [pc |-> "idle", ignoreWarnings |-> FALSE, outcome |-> <<>>, torun |-> {},
          findings |-> <<>>, errs |-> <<>>, written |-> FALSE, exit |-> 0]
VetIdle == vet = NoVet

\* loadComponent is not at the sources of a package
NoSources == [pc |-> "idle", files |-> {}, srcs |-> "", additional |-> {},
              variant |-> "none", completeSources |-> {}, Sources |-> {},
              loaded |-> FALSE, err |-> ""]
SourcesIdle == lc = NoSources

\* none of the commands below is running
NoDiscover == [pc |-> "idle"]
DiscoverIdle == disc = NoDiscover
NoIgnore == [pc |-> "idle"]
IgnoreIdle == ign = NoIgnore
NoServe == [pc |-> "idle"]
ServeIdle == srv = NoServe
NoAssert == [pc |-> "idle"]
AssertIdle == asrt = NoAssert
NoFmt == [pc |-> "idle"]
FmtIdle == fmtf = NoFmt
NoExec == [pc |-> "idle"]
ExecIdle == exe = NoExec
NoDescribe == [pc |-> "idle"]
DescribeIdle == desc = NoDescribe
NoSave == [pc |-> "idle"]
SaveIdle == sav = NoSave

CmdIdle ==
    /\ DiscoverIdle
    /\ IgnoreIdle
    /\ ServeIdle
    /\ AssertIdle
    /\ FmtIdle
    /\ ExecIdle
    /\ DescribeIdle
    /\ SaveIdle

ToolIdle ==
    /\ FilterIdle
    /\ FindIdle
    /\ EnvIdle
    /\ ProvIdle
    /\ WatchIdle
    /\ VetIdle
    /\ SourcesIdle

BuildInit ==
    /\ remote \in BucketContents
    /\ fs = [dir \in Dirs |-> NoFiles]
    /\ tmp = NoFiles
    /\ cacheLevel = "none"
    /\ addRemote = FALSE
    /\ jFlag = 0
    /\ maxTasks = 0
    /\ started = <<>>
    /\ localCacheLoc = "cachedir"
    /\ phase = "idle"
    /\ st = [p \in Pkgs |-> "none"]
    /\ failures = <<>>
    /\ result = NoResult
    /\ ops = {}
    /\ prev = NoPrev
    /\ runs = 0

Init ==
    /\ deps \in AcyclicGraphs
    /\ BuildInit
    /\ LoadIdle
    /\ ReadIdle
    /\ ToolIdle
    /\ CmdIdle
    /\ VersionIdle

\* buildCmd up to the call of Build: getBuildOpts
StartRun(level, add, j) ==
    /\ runs' = runs + 1
    /\ prev' = [level |-> cacheLevel, status |-> result.status]
    /\ cacheLevel' = level
    /\ addRemote' = add
    /\ jFlag' = j
    /\ maxTasks' = WithMaxConcurrentTasks(j)
    /\ started' = <<>>
    /\ failures' = <<>>
    /\ result' = NoResult
    /\ ops' = {}
    /\ IF level \notin CacheLevels
       THEN /\ phase' = "fatal"
            /\ st' = [p \in Pkgs |-> "none"]
            /\ UNCHANGED <<localCacheLoc, fs>>
       ELSE /\ phase' = "download"
            /\ st' = [p \in Pkgs |-> IF p \in Closure(deps) THEN "pending" ELSE "none"]
            /\ localCacheLoc' = IF level = "none" THEN "tempdir" ELSE "cachedir"
            /\ fs' = IF level = "none" THEN [fs EXCEPT !["tempdir"] = NoFiles] ELSE fs
    /\ UNCHANGED <<deps, remote, tmp, loadVars, readVars, versionVars, toolVars, cmdVars>>

\* the first build command
BuildCmd(level, add, j) ==
    /\ phase = "idle"
    /\ StartRun(level, add, j)

\* a later build command, after the preceding one returned or died
BuildAgain(level, add, j) ==
    /\ phase \in {"done", "fatal"}
    /\ runs < MaxRuns
    /\ StartRun(level, add, j)

\* Build: the remote caches download the packages of the closure
DownloadPhase ==
    /\ phase = "download"
    /\ LET rcs == RemoteCaches(cacheLevel, addRemote)
       IN /\ fs' = [fs EXCEPT ![localCacheLoc] = DownloadAll(rcs, @, Closure(deps), remote)]
          /\ ops' = ops \cup AllDownloadOps(rcs)
    /\ phase' = "walk"
    /\ UNCHANGED <<started, deps, remote, tmp, cacheLevel, addRemote, jFlag, maxTasks,
                   localCacheLoc, st, failures, result, prev, runs, loadVars, readVars, versionVars, toolVars, cmdVars>>

\* Build: a runnable package is reported as cached or handed to its builder
Schedule(p) ==
    /\ phase = "walk"
    /\ Runnable(deps, st, p)
    /\ MayStart(failures)
    /\ LET to == OnRunnable(LocalCache, p)
       IN /\ to = "building" => ~LimitReached(maxTasks, Running(st))
          /\ st' = [st EXCEPT ![p] = to]
          /\ started' = IF to = "building" THEN Append(started, p) ELSE started
    /\ UNCHANGED <<deps, remote, fs, tmp, cacheLevel, addRemote,
                   jFlag, maxTasks, localCacheLoc, phase, failures, result, ops, prev, runs,
                   loadVars, readVars, versionVars, toolVars, cmdVars>>

\* the builder: a build step exits non-zero
BuildFail(p) ==
    /\ phase = "walk"
    /\ st[p] = "building"
    /\ st' = [st EXCEPT ![p] = "failed"]
    /\ failures' = Append(failures, p)
    /\ UNCHANGED <<started, deps, remote, fs, tmp, cacheLevel, addRemote,
                   jFlag, maxTasks, localCacheLoc, phase, result, ops, prev, runs, loadVars, readVars, versionVars, toolVars, cmdVars>>

\* the builder: the steps succeeded; write the provenance bundle, start the archive
Pack(p) ==
    /\ phase = "walk"
    /\ st[p] = "building"
    /\ IF writeProvenance(ProvenanceEnabled, deps, LocalCache, p) = "ok"
       THEN LET w == WriteTemp(tmp, LocalCache, p, "partial")
            IN /\ tmp' = w.tmpf
               /\ fs' = [fs EXCEPT ![localCacheLoc] = w.files]
               /\ st' = [st EXCEPT ![p] = "packaging"]
               /\ UNCHANGED failures
       ELSE /\ st' = [st EXCEPT ![p] = "notbuilt"]
            /\ failures' = Append(failures, p)
            /\ UNCHANGED <<tmp, fs>>
    /\ UNCHANGED <<started, deps, remote, cacheLevel, addRemote,
                   jFlag, maxTasks, localCacheLoc, phase, result, ops, prev, runs, loadVars, readVars, versionVars, toolVars, cmdVars>>

\* the builder: writing the archive fails
PackFail(p) ==
    /\ phase = "walk"
    /\ st[p] = "packaging"
    /\ LET w == Discard(tmp, LocalCache, p)
       IN /\ tmp' = w.tmpf
          /\ fs' = [fs EXCEPT ![localCacheLoc] = w.files]
    /\ st' = [st EXCEPT ![p] = "failed"]
    /\ failures' = Append(failures, p)
    /\ UNCHANGED <<started, deps, remote, cacheLevel, addRemote,
                   jFlag, maxTasks, localCacheLoc, phase, result, ops, prev, runs, loadVars, readVars, versionVars, toolVars, cmdVars>>

\* the builder: the archive is complete and inserted; Build uploads it
Insert(p) ==
    /\ phase = "walk"
    /\ st[p] = "packaging"
    /\ LET w == WriteTemp(tmp, LocalCache, p, "complete")
           r == Rename(w.tmpf, w.files, p)
           rc == WrapRemoteCache(cacheLevel, getRemoteCache(EnvRemoteCacheBucket))
       IN /\ tmp' = r.tmpf
          /\ fs' = [fs EXCEPT ![localCacheLoc] = r.files]
          /\ remote' = Upload(rc, r.files, {p}, remote)
          /\ ops' = ops \cup UploadOps(rc)
    /\ st' = [st EXCEPT ![p] = "built"]
    /\ UNCHANGED <<started, deps, cacheLevel, addRemote, jFlag, maxTasks,
                   localCacheLoc, phase, failures, result, prev, runs, loadVars, readVars, versionVars, toolVars, cmdVars>>

\* Build returns: every task is complete, or one failed and none is in flight
Finish ==
    /\ phase = "walk"
    /\ Running(st) = {}
    /\ failures # <<>> \/ \A p \in Closure(deps) : st[p] \in Complete
    /\ result' = OverallResult(failures)
    /\ st' = [p \in Pkgs |-> IF st[p] = "pending" THEN "cancelled" ELSE st[p]]
    /\ phase' = "done"
    /\ UNCHANGED <<started, deps, remote, fs, tmp, cacheLevel, addRemote,
                   jFlag, maxTasks, localCacheLoc, failures, ops, prev, runs, loadVars, readVars, versionVars, toolVars, cmdVars>>

Next ==
    \/ \E level \in LevelInputs, add \in BOOLEAN, j \in 0..MaxTasks : BuildCmd(level, add, j)
    \/ DownloadPhase
    \/ \E p \in Pkgs : Schedule(p)
    \/ \E p \in Pkgs : BuildFail(p)
    \/ \E p \in Pkgs : Pack(p)
    \/ \E p \in Pkgs : PackFail(p)
    \/ \E p \in Pkgs : Insert(p)
    \/ Finish

Spec == Init /\ [][Next]_vars

\* ------------------------------------------------------------------ runs
\* a -> b -> c: every package depends on the one before it
Chain == [p \in Pkgs |-> IF p = 1 THEN {} ELSE {p - 1}]
\* the target depends on every other package, which depend on nothing
Flat == [p \in Pkgs |-> IF p = Target THEN Pkgs \ {Target} ELSE {}]

InitRuns ==
    /\ deps \in {Chain, Flat}
    /\ BuildInit
    /\ LoadIdle
    /\ ReadIdle
    /\ ToolIdle
    /\ CmdIdle
    /\ VersionIdle

NextRuns ==
    \/ \E level \in LevelInputs, add \in BOOLEAN : BuildCmd(level, add, 1)
    \/ \E level \in LevelInputs, add \in BOOLEAN : BuildAgain(level, add, 1)
    \/ DownloadPhase
    \/ \E p \in Pkgs : Schedule(p)
    \/ \E p \in Pkgs : BuildFail(p)
    \/ \E p \in Pkgs : Pack(p)
    \/ \E p \in Pkgs : PackFail(p)
    \/ \E p \in Pkgs : Insert(p)
    \/ Finish

SpecRuns == InitRuns /\ [][NextRuns]_vars

\* ------------------------------------------------------------------ cache readers
\* the build of SpecCache: the target alone, into the cache directory
InitCache ==
    /\ deps = [p \in Pkgs |-> {}]
    /\ BuildInit
    /\ remote = [b \in Buckets |-> {}]
    /\ LoadIdle
    /\ ReadIdle
    /\ ToolIdle
    /\ CmdIdle
    /\ VersionIdle

\* a task asks the cache where the target's artifact is (getDependenciesProvenanceBundles,
\* saveBuildResult, serveBuildResult): Location, and the early return when it is missing
ReaderLocate(r) ==
    /\ rpc[r] = "idle"
    /\ IF Location(fs["cachedir"], Target)
       THEN /\ rpc' = [rpc EXCEPT ![r] = "located"]
            /\ UNCHANGED robs
       ELSE /\ rpc' = [rpc EXCEPT ![r] = "done"]
            /\ robs' = [robs EXCEPT ![r] = "notpresent"]
    /\ UNCHANGED <<deps, buildVars, loadVars, versionVars, toolVars, cmdVars>>

\* the task opens the file at the location and reads it (extractBundleFromCachedArchive)
ReaderOpen(r) ==
    /\ rpc[r] = "located"
    /\ rpc' = [rpc EXCEPT ![r] = "done"]
    /\ robs' = [robs EXCEPT ![r] = fs["cachedir"][Target]]
    /\ UNCHANGED <<deps, buildVars, loadVars, versionVars, toolVars, cmdVars>>

NextCache ==
    \/ BuildCmd("local", FALSE, 1)
    \/ DownloadPhase
    \/ \E p \in Pkgs : Schedule(p)
    \/ \E p \in Pkgs : BuildFail(p)
    \/ \E p \in Pkgs : Pack(p)
    \/ \E p \in Pkgs : PackFail(p)
    \/ \E p \in Pkgs : Insert(p)
    \/ Finish
    \/ \E r \in Readers : ReaderLocate(r)
    \/ \E r \in Readers : ReaderOpen(r)

SpecCache == InitCache /\ [][NextCache]_vars

\* ------------------------------------------------------------------ loader: cycles
NoCycle == [err |-> FALSE, cycle |-> <<>>]
DepthExceeded == [err |-> TRUE, cycle |-> <<>>]

\* the part of the path from the first visit of p on, closed by p
CycleFrom(path, p) ==
    LET i == CHOOSE k \in DOMAIN path : path[k] = p
    IN SubSeq(path, i, Len(path)) \o <<p>>

\* (mutant) the depth-limited search, a node counting as re-visited when any
\* branch of the search has seen it
RECURSIVE findCycleSeenRec(_, _, _, _, _)
findCycleSeenRec(d, maxDepth, stack, seen, depth) ==
    IF stack = <<>> THEN NoCycle
    ELSE LET p == Head(stack)
         IN IF depth > maxDepth THEN DepthExceeded
            ELSE IF p \in seen THEN [err |-> FALSE, cycle |-> <<p, p>>]
            ELSE findCycleSeenRec(d, maxDepth,
                     [i \in 1..(Len(stack) - 1 + Cardinality(d[p])) |->
                         IF i <= Cardinality(d[p])
                         THEN CHOOSE q \in d[p] : Cardinality({x \in d[p] : x < q}) = i - 1
                         ELSE stack[i - Cardinality(d[p]) + 1]],
                     seen \cup {p}, depth)

findCycleSeen(d, idx, p) == {findCycleSeenRec(d, Cardinality(idx), <<p>>, {}, 0)}

\* Package.findCycle: depth-limited search along the dependencies; the outcomes
\* over every order in which the dependencies of a package can be listed
RECURSIVE findCycleRec(_, _, _, _, _)
findCycleRec(d, maxDepth, p, path, depth) ==
    IF depth > maxDepth THEN {DepthExceeded}
    ELSE IF \E k \in DOMAIN path : path[k] = p
    THEN {[err |-> FALSE, cycle |-> CycleFrom(path, p)]}
    ELSE LET sub == UNION {findCycleRec(d, maxDepth, q, Append(path, p), depth + 1) :
                              q \in d[p]}
         IN IF sub \subseteq {NoCycle} THEN {NoCycle} ELSE sub \ {NoCycle}

findCycle(d, idx, p) == findCycleRec(d, Cardinality(idx), p, <<>>, 0)

\* (mutant) a cycle counts only from two distinct packages on
LoadDecisionNoSelf(r) ==
    IF r.err THEN "warn"
    ELSE IF Len(r.cycle) <= 2 THEN "continue"
    ELSE "fail"

\* loadApplication: what the loop does with the answer of findCycle
LoadDecision(r) ==
    IF r.err THEN "warn"
    ELSE IF Len(r.cycle) = 0 THEN "continue"
    ELSE "fail"

AnyGraphs == [CPkgs -> SUBSET CPkgs]

\* the application is linked: every dependency was resolved through the index
InitCycle ==
    /\ deps \in AnyGraphs
    /\ index = CPkgs
    /\ todo = CPkgs
    /\ loadState = "checking"
    /\ loadErr = <<>>
    /\ warned = {}
    /\ BuildInit
    /\ remote = [b \in Buckets |-> {}]
    /\ ReadIdle
    /\ ToolIdle
    /\ CmdIdle
    /\ VersionIdle

\* loadApplication: one round of the loop over application.Packages
CheckPackage(p) ==
    /\ loadState = "checking"
    /\ p \in todo
    /\ \E r \in findCycle(deps, index, p) :
          LET dec == LoadDecision(r)
          IN /\ todo' = todo \ {p}
             /\ warned' = IF dec = "warn" THEN warned \cup {p} ELSE warned
             /\ loadState' = IF dec = "fail" THEN "failed" ELSE loadState
             /\ loadErr' = IF dec = "fail" THEN r.cycle ELSE loadErr
    /\ UNCHANGED <<deps, index, buildVars, readVars, versionVars, toolVars, cmdVars>>

\* loadApplication: the loop is through, the application is returned
LoadDone ==
    /\ loadState = "checking"
    /\ todo = {}
    /\ loadState' = "loaded"
    /\ UNCHANGED <<deps, index, todo, loadErr, warned, buildVars, readVars, versionVars, toolVars, cmdVars>>

NextCycle ==
    \/ \E p \in CPkgs : CheckPackage(p)
    \/ LoadDone

SpecCycle == InitCycle /\ [][NextCycle]_vars

\* the package index misses packages the dependency pointers reach
\* (TestFindCycles "broken index": the packages are never put into the index)
InitCorrupt ==
    /\ deps \in AnyGraphs
    /\ index \in (SUBSET CPkgs) \ {CPkgs}
    /\ todo = CPkgs
    /\ loadState = "checking"
    /\ loadErr = <<>>
    /\ warned = {}
    /\ BuildInit
    /\ remote = [b \in Buckets |-> {}]
    /\ ReadIdle
    /\ ToolIdle
    /\ CmdIdle
    /\ VersionIdle

SpecCorrupt == InitCorrupt /\ [][NextCycle]_vars

\* ------------------------------------------------------------------ loader: arguments
\* getBuildArgs: no -D flag gives the nil map
getBuildArgs(flags) == IF DOMAIN flags = {} THEN NilArgs ELSE MakeArgs(flags)

\* m with the entries of over written on top
Override(m, over) ==
    [k \in DOMAIN m \cup DOMAIN over |-> IF k \in DOMAIN over THEN over[k] ELSE m[k]]

\* (mutant) the root's defaults fill only the keys the application leaves open
InstallRootDefaultsKeepInner(appDefaults, rootDefaults) ==
    Override(rootDefaults, appDefaults)

\* loadApplication: opts.ArgumentDefaults are written over the defaultArgs of
\* the application being loaded
InstallRootDefaults(appDefaults, rootDefaults) ==
    IF DOMAIN rootDefaults # {} THEN Override(appDefaults, rootDefaults)
    ELSE appDefaults

\* loadApplication: every default whose key is not set yet is put into args;
\* a nil map is made on the first default
ApplyDefaults(a, defaults) ==
    IF DOMAIN defaults = {} THEN a ELSE MakeArgs(Override(defaults, a.m))

\* the keys APPLICATION.yaml files and -D flags set
DefaultKeys == {"msg", "tag"}

\* getApplication: the arguments are read and the applications to load are
\* found; with nesting the applications below the named one come first
InitNested ==
    /\ nested \in BOOLEAN
    /\ rootWS \in Apps
    /\ buildArgs \in Maps(DefaultKeys)
    /\ defaultArgs \in [Apps -> Maps(DefaultKeys)]
    /\ args = getBuildArgs(buildArgs)
    /\ toLoad = IF nested /\ rootWS = "root" THEN <<"inner", "root">> ELSE <<rootWS>>
    /\ loadedArgs = <<>>
    /\ deps = [p \in Pkgs |-> {}]
    /\ BuildInit
    /\ remote = [b \in Buckets |-> {}]
    /\ LoadIdle
    /\ ReadIdle
    /\ ToolIdle
    /\ CmdIdle
    /\ DefIdle
    /\ OnceIdle

\* opts.ArgumentDefaults: FindNestedApplications passes the defaults of the
\* named application, FindApplication passes none
OptsArgumentDefaults == IF nested THEN defaultArgs[rootWS] ELSE EmptyArgs

\* loadApplication of the next application, up to discoverComponents; a map
\* that is not nil is the caller's map and keeps what is put into it
LoadNext ==
    /\ toLoad # <<>>
    /\ LET a == Head(toLoad)
           merged == ApplyDefaults(args,
                         InstallRootDefaults(defaultArgs[a], OptsArgumentDefaults))
       IN /\ loadedArgs' = [b \in DOMAIN loadedArgs \cup {a} |->
                                IF b = a THEN merged ELSE loadedArgs[b]]
          /\ args' = IF args.nil THEN args ELSE merged
    /\ toLoad' = Tail(toLoad)
    /\ UNCHANGED <<deps, nested, rootWS, buildArgs, defaultArgs, defVars, onceVars,
                   buildVars, loadVars, readVars, toolVars, cmdVars>>

NextNested == LoadNext

SpecNested == InitNested /\ [][NextNested]_vars

\* ------------------------------------------------------------------ loader: components
FileNames == {"a", "b"}             \* files below the component's origin
Contents == {"x", "y"}              \* what a file can hold
Indents == {"indent2", "indent4"}   \* how the YAML of a package is indented

\* source patterns without a reference: one matches file "a", two match no
\* file (the patterns of the TestPackageDefinition fixtures)
Patterns == {"a", "doesNotExist", "alsoDoesNotExist"}

\* a piece of YAML text is a literal or one ${name} reference
Lit(v) == [ref |-> FALSE, s |-> v]
Ref(n) == [ref |-> TRUE, s |-> n]
Texts == {Lit(v) : v \in Vals \cup Patterns} \cup {Ref(n) : n \in ArgNames}

\* the text of one package (type generic) in BUILD.yaml
RawPackages == [indent : Indents, srcs : Texts, config : Texts, argdeps : SUBSET ArgNames]

\* replaceBuildArguments on one piece of text: ${name} becomes the value of
\* name in the map, other names stay
replaceText(t, compargs) ==
    IF t.ref /\ t.s \in DOMAIN compargs THEN Lit(compargs[t.s]) ELSE t

replaceBuildArguments(pkg, compargs) ==
    [pkg EXCEPT !.srcs = replaceText(pkg.srcs, compargs),
                !.config = replaceText(pkg.config, compargs)]

\* loadComponent: the substituted BUILD.yaml (rfc) of a component
Substituted(build, a) ==
    LET compargs == Override(a, build.const)
    IN IF DOMAIN a # {}
       THEN [p \in DOMAIN build.pkgs |-> replaceBuildArguments(build.pkgs[p], compargs)]
       ELSE build.pkgs

\* yaml.Unmarshal into a node: the layout of the text is not part of the node
Node(raw, dp) == [srcs |-> raw.srcs, config |-> raw.config, argdeps |-> raw.argdeps,
                  deps |-> dp]

\* (mutant) the definition leaves the source patterns out
DefinitionWithoutSources(raw, sub, dp) == [Node(raw, dp) EXCEPT !.srcs = Lit("a")]

\* (mutant) the definition is taken from the substituted YAML
DefinitionOfSubstituted(raw, sub, dp) == Node(sub, dp)

\* loadComponent: pkg.Definition is the marshalled node of the raw YAML
Definition(raw, sub, dp) == Node(raw, dp)

\* (mutant) the values are looked up in the component's argument map
ArgDepArgumentsOfComponent(a, compargs) == compargs

\* loadComponent: the map the argument dependencies are looked up in
ArgDepArguments(a, compargs) == a

\* resolveSources: the files a source pattern matches; a pattern that still
\* holds a reference matches no file
resolveSources(files, pattern) ==
    IF pattern.ref THEN {} ELSE {f \in DOMAIN files : f = pattern.s}

\* (mutant) the value of an argument dependency is dropped
ArgumentDependenciesNameOnly(argdeps, a) == {<<n, NotSet>> : n \in argdeps}

\* loadComponent: the version relevant arguments become "<name>: <value>"
ArgumentDependencies(argdeps, a) ==
    {<<n, IF n \in DOMAIN a THEN a[n] ELSE NotSet>> : n \in argdeps}

\* (mutant) the set of complete sources is not reset from package to package
loadComponentSourcesKept(build, d, a) ==
    LET rfc == Substituted(build, a)
    IN [p \in DOMAIN build.pkgs |->
          [Definition |-> Definition(build.pkgs[p], rfc[p], d[p]),
           Sources |-> UNION {resolveSources(build.files, rfc[q].srcs) :
                                 q \in {r \in DOMAIN build.pkgs : r <= p}},
           ArgumentDependencies |->
               ArgumentDependencies(rfc[p].argdeps,
                                    ArgDepArguments(a, Override(a, build.const))),
           Config |-> rfc[p].config]]

\* loadComponent: the packages of the component, loaded with arguments a
loadComponent(build, d, a) ==
    LET rfc == Substituted(build, a)
    IN [p \in DOMAIN build.pkgs |->
          [Definition |-> Definition(build.pkgs[p], rfc[p], d[p]),
           Sources |-> resolveSources(build.files, rfc[p].srcs),
           ArgumentDependencies |->
               ArgumentDependencies(rfc[p].argdeps,
                                    ArgDepArguments(a, Override(a, build.const))),
           Config |-> rfc[p].config]]

\* ------------------------------------------------------------------ versions
\* the environment manifest of the host: the same in every load
EnvironmentManifest == <<"arch: amd64", "os: linux">>

\* the content of the sources of a package, framed by their paths
ContentManifest(files, sources) == {<<f, files[f]>> : f \in sources}

\* Package.Version: the hash over the definition, the sources, the argument
\* dependencies, the environment manifest and name and version of every
\* dependency; the hash is one-to-one on what it is fed
RECURSIVE Version(_, _, _, _)
Version(pk, files, d, p) ==
    [definition |-> pk[p].Definition,
     sources |-> ContentManifest(files, pk[p].Sources),
     argdeps |-> pk[p].ArgumentDependencies,
     env |-> EnvironmentManifest,
     deps |-> {<<q, Version(pk, files, d, q)>> : q \in d[p]}]

\* FindApplication: loadApplication without root defaults, up to the versions
LoadResult(ap, d) ==
    LET a == ApplyDefaults(getBuildArgs(ap.flags),
                           InstallRootDefaults(ap.defaults, EmptyArgs)).m
        pk == loadComponent(ap, d, a)
    IN [appl |-> ap, args |-> a, rfc |-> Substituted(ap, a), pkgs |-> pk,
        version |-> [p \in DOMAIN ap.pkgs |-> Version(pk, ap.files, d, p)]]

\* gorpa describe: the application is loaded as it stands
LoadApplication ==
    /\ \/ Len(loads) = 0
       \/ Len(loads) = 1 /\ appl # loads[1].appl
    /\ loads' = Append(loads, LoadResult(appl, deps))
    /\ UNCHANGED <<deps, appl, buildVars, loadVars, readVars, argVars, onceVars, toolVars, cmdVars>>

Unedited == Len(loads) = 1 /\ appl = loads[1].appl

Edit(ap) ==
    /\ Unedited
    /\ appl' = ap
    /\ UNCHANGED <<deps, loads, buildVars, loadVars, readVars, argVars, onceVars, toolVars, cmdVars>>

\* BUILD.yaml is re-indented around package p
EditIndent(p, l) ==
    /\ l # appl.pkgs[p].indent
    /\ Edit([appl EXCEPT !.pkgs[p].indent = l])

\* one source pattern of package p is replaced by another
EditSrcs(p, t) ==
    /\ t # appl.pkgs[p].srcs
    /\ Edit([appl EXCEPT !.pkgs[p].srcs = t])

\* a source file gets new content
EditFile(f, c) ==
    /\ c # appl.files[f]
    /\ Edit([appl EXCEPT !.files[f] = c])

\* a constant is added to the component or changed
EditConst(n, v) ==
    /\ IF n \in DOMAIN appl.const THEN appl.const[n] # v ELSE TRUE
    /\ Edit([appl EXCEPT !.const = Override(appl.const, [k \in {n} |-> v])])

\* the next load gets other -D flags
EditFlags(m) ==
    /\ m # appl.flags
    /\ Edit([appl EXCEPT !.flags = m])

\* two loads of an application whose definitions or sources change in between
PlainPackages == {r \in RawPackages :
                    r.indent = "indent2" /\ ~r.srcs.ref /\ r.config = Lit("a")
                    /\ r.argdeps = {}}

InitVersion ==
    /\ deps \in AcyclicGraphs
    /\ appl \in [pkgs : [Pkgs -> PlainPackages], const : {EmptyArgs},
                 files : {[f \in FileNames |-> "x"]}, flags : {EmptyArgs},
                 defaults : {EmptyArgs}]
    /\ loads = <<>>
    /\ BuildInit
    /\ remote = [b \in Buckets |-> {}]
    /\ LoadIdle
    /\ ReadIdle
    /\ ToolIdle
    /\ CmdIdle
    /\ ArgIdle
    /\ OnceIdle

NextVersion ==
    \/ LoadApplication
    \/ \E p \in Pkgs, l \in Indents : EditIndent(p, l)
    \/ \E p \in Pkgs, t \in {Lit(v) : v \in Patterns} : EditSrcs(p, t)
    \/ \E f \in FileNames, c \in Contents : EditFile(f, c)

SpecVersion == InitVersion /\ [][NextVersion]_vars

\* two loads of a component that uses build arguments and constants; the
\* constants or the -D flags change in between
ArgPackages == {r \in RawPackages :
                  /\ r.indent = "indent2"
                  /\ r.srcs \in {Lit("a"), Ref("msg")}
                  /\ r.config \in {Lit("a"), Ref("msg")}}

ArgGraphs == {[p \in APkgs |-> {}], [p \in APkgs |-> IF p = 1 THEN {} ELSE {p - 1}]}

InitArgs ==
    /\ deps \in ArgGraphs
    /\ appl \in [pkgs : [APkgs -> ArgPackages],
                 const : {m \in Maps(ConstNames) : \A k \in DOMAIN m : m[k] = "a"},
                 files : {[f \in FileNames |-> IF f = "a" THEN "x" ELSE "y"]},
                 flags : Maps(ArgNames),
                 defaults : Maps(ArgNames)]
    /\ loads = <<>>
    /\ BuildInit
    /\ remote = [b \in Buckets |-> {}]
    /\ LoadIdle
    /\ ReadIdle
    /\ ToolIdle
    /\ CmdIdle
    /\ ArgIdle
    /\ OnceIdle

NextArgs ==
    \/ LoadApplication
    \/ \E n \in ConstNames, v \in Vals : EditConst(n, v)
    \/ \E m \in Maps(ArgNames) : EditFlags(m)

SpecArgs == InitArgs /\ [][NextArgs]_vars

\* ------------------------------------------------------------------ version cache
\* the version of the package as computed from the sources as they are
HashOf(content) == IF content = "x" THEN "version-of-x" ELSE "version-of-y"

\* (mutant) the version is computed whenever the version cache is empty
OnceDoUnguarded(o, cache) == IF cache = "" THEN "compute" ELSE "return"

\* the one-shot guard of a package: the first caller computes, a caller that
\* comes while the first computes waits, later callers take the stored value
OnceDo(o, cache) ==
    IF o = "fresh" THEN "compute"
    ELSE IF o = "running" THEN "wait"
    ELSE "return"

InitOnce ==
    /\ OnceIdle
    /\ deps = [p \in Pkgs |-> {}]
    /\ BuildInit
    /\ remote = [b \in Buckets |-> {}]
    /\ LoadIdle
    /\ ReadIdle
    /\ ToolIdle
    /\ CmdIdle
    /\ DefIdle
    /\ ArgIdle

OnceFrame == UNCHANGED <<deps, buildVars, loadVars, readVars, defVars, argVars, toolVars, cmdVars>>

\* a task (the build of a dependent, the plan, the cache) calls Version()
CallVersion(c) ==
    /\ vpc[c] = "idle"
    /\ LET todo1 == OnceDo(once, versionCache)
       IN /\ vpc' = [vpc EXCEPT ![c] = IF todo1 = "compute" THEN "computing"
                                       ELSE IF todo1 = "wait" THEN "waiting"
                                       ELSE "returning"]
          /\ once' = IF todo1 = "compute" THEN "running" ELSE once
    /\ UNCHANGED <<source, versionCache, computations, got>>
    /\ OnceFrame

\* the computing caller hashes the sources and stores the version
ComputeVersion(c) ==
    /\ vpc[c] = "computing"
    /\ versionCache' = HashOf(source)
    /\ computations' = computations + 1
    /\ once' = "done"
    /\ vpc' = [vpc EXCEPT ![c] = "returning"]
    /\ UNCHANGED <<source, got>>
    /\ OnceFrame

\* a waiting caller goes on when the guard is done
WakeUp(c) ==
    /\ vpc[c] = "waiting"
    /\ once = "done"
    /\ vpc' = [vpc EXCEPT ![c] = "returning"]
    /\ UNCHANGED <<source, once, versionCache, computations, got>>
    /\ OnceFrame

\* Version() returns the stored value
ReturnVersion(c) ==
    /\ vpc[c] = "returning"
    /\ got' = [got EXCEPT ![c] = versionCache]
    /\ vpc' = [vpc EXCEPT ![c] = "done"]
    /\ UNCHANGED <<source, once, versionCache, computations>>
    /\ OnceFrame

\* a source file of the package is rewritten while the process runs
TouchSource(content) ==
    /\ content # source
    /\ source' = content
    /\ UNCHANGED <<once, versionCache, computations, vpc, got>>
    /\ OnceFrame

NextOnce ==
    \/ \E c \in Callers : CallVersion(c)
    \/ \E c \in Callers : ComputeVersion(c)
    \/ \E c \in Callers : WakeUp(c)
    \/ \E c \in Callers : ReturnVersion(c)
    \/ \E content \in Contents : TouchSource(content)

SpecOnce == InitOnce /\ [][NextOnce]_vars

\* ------------------------------------------------------------------ variants
MaxDeps == 3        \* longest dependency list of a package

\* components.exclude of the selected variant
Excluded == {"gone"}

\* PackageVariant.ExcludeComponent: the variant excludes the component of that name
ExcludeComponent(name) == name \in Excluded

\* fully qualified dependencies, as strings.Split(dep, ":") returns them
Qualified == {<<"keep", "a">>, <<"keep", "b">>, <<"gone", "a">>, <<"gone", "b">>}

\* Package.Dependencies of one package: no dependency is named twice
DependencyLists ==
    {l \in UNION {[1..n -> Qualified] : n \in 0..MaxDeps} :
        \A i, j \in DOMAIN l : l[i] = l[j] => i = j}

\* p.Dependencies after the pass: the first len elements of the backing array
Dependencies(f) == SubSeq(f.arr, 1, f.len)

\* discoverComponents hands a loaded component to filterExcludedComponents: an
\* excluded component is dropped, the others have their package's list ranged over
InitFilter ==
    /\ flt \in {[orig |-> l, arr |-> l, len |-> Len(l), i |-> 0,
                 pc |-> IF ExcludeComponent(c) THEN "dropped" ELSE "range"] :
                    l \in DependencyLists, c \in {"keep", "gone"}}
    /\ deps = [p \in Pkgs |-> {}]
    /\ BuildInit
    /\ remote = [b \in Buckets |-> {}]
    /\ LoadIdle
    /\ ReadIdle
    /\ VersionIdle
    /\ CmdIdle
    /\ FindIdle
    /\ EnvIdle
    /\ ProvIdle
    /\ WatchIdle
    /\ VetIdle
    /\ SourcesIdle

FilterFrame == UNCHANGED <<cmdVars, deps, buildVars, loadVars, readVars, versionVars, tree, find, env, prov, watch, vet, lc>>

\* the body of the loop for "i, dep := range p.Dependencies": the range runs over
\* the slice as it was when the loop began, i counts from 0, a dependency on an
\* excluded component is overwritten with the last element and the slice is cut
\* by one; an index at or beyond the present length panics
RangeBody ==
    /\ flt.pc = "range"
    /\ flt.i < Len(flt.orig)
    /\ LET segs == flt.arr[flt.i + 1]
       IN flt' = IF Len(segs) # 2 \/ ~ExcludeComponent(segs[1])
                 THEN [flt EXCEPT !.i = @ + 1]
                 ELSE IF flt.i >= flt.len
                 THEN [flt EXCEPT !.pc = "panic"]
                 ELSE [flt EXCEPT !.arr[flt.i + 1] = flt.arr[flt.len],
                                  !.len = @ - 1, !.i = @ + 1]
    /\ FilterFrame

\* the range is exhausted: filterExcludedComponents returns false
RangeEnd ==
    /\ flt.pc = "range"
    /\ flt.i = Len(flt.orig)
    /\ flt' = [flt EXCEPT !.pc = "done"]
    /\ FilterFrame

NextFilter ==
    \/ RangeBody
    \/ RangeEnd

SpecFilter == InitFilter /\ [][NextFilter]_vars

\* ------------------------------------------------------------------ nested applications
\* Strings are sequences of letters; a letter of the model is a run of
\* characters that is never split: "inner2" is "inner" followed by "2".
HasPrefix(s, p) == Len(p) <= Len(s) /\ SubSeq(s, 1, Len(p)) = p
TrimPrefix(s, p) == IF HasPrefix(s, p) THEN SubSeq(s, Len(p) + 1, Len(s)) ELSE s
Contains(s, t) == \E k \in 0..(Len(s) - Len(t)) : SubSeq(s, k + 1, k + Len(t)) = t
Count(s, c) == Cardinality({k \in DOMAIN s : s[k] = c})
filepathTrimPrefix(path, prefix) == TrimPrefix(TrimPrefix(path, prefix), <<"/">>)

\* the directories of the repository
CompDir == <<"root", "/", "comp">>
BaseDir == <<"root", "/", "base">>
LibDir == <<"root", "/", "inner", "/", "lib">>
Inner2Dir == <<"root", "/", "inner", "2">>

\* the text of the dependencies BUILD.yaml files declare
LibApp == <<"inner", "/", "lib", ":", "app">>
BaseApp == <<"base", ":", "app">>

VariantNames == {"v"}

\* what the packages declare and what a variant makes of it: a variant excludes
\* README.md from the sources and sets one environment variable
PackageSources == {"main.go", "README.md"}
VariantSources(vnt) == IF vnt = NoVariant THEN PackageSources ELSE PackageSources \ {"README.md"}
VariantEnvironment(vnt) == IF vnt = NoVariant THEN <<>> ELSE <<<<"FLAVOUR", vnt.from, vnt.name>>>>

\* the repositories of the model: comp, base and inner/lib hold a BUILD.yaml
\* with one package app; inner may hold an APPLICATION.yaml, inner2 a BUILD.yaml
Trees ==
    [nested : BOOLEAN,              \* GORPA_NESTED_APPLICATION
     variant : {""} \cup VariantNames,          \* --variant
     innerWS : BOOLEAN,             \* inner/APPLICATION.yaml exists
     sibling : BOOLEAN,             \* inner2/BUILD.yaml exists
     depOn : BOOLEAN,               \* comp:app depends on inner/lib:app
     depOut : BOOLEAN,              \* the package of inner/lib depends on base:app
     variants : [{RootDir, InnerDir} -> SUBSET VariantNames],
     defaultVariant : [{RootDir, InnerDir} -> BOOLEAN]]

ApplicationDirs(t) == {RootDir} \cup (IF t.innerWS THEN {InnerDir} ELSE {})
ComponentDirs(t) == {CompDir, BaseDir, LibDir} \cup (IF t.sibling THEN {Inner2Dir} ELSE {})
DeclaredDependencies(t, dir) ==
    IF dir = CompDir /\ t.depOn THEN {LibApp}
    ELSE IF dir = LibDir /\ t.depOut THEN {BaseApp}
    ELSE {}

\* ShouldIgnoreSource: a path is ignored when it contains one of the patterns
ShouldIgnoreSource(ignores, path) == \E ptn \in ignores : Contains(path, ptn)

\* doublestar.Glob(base, "**/<file>", ignore): the directories at or below base
\* that hold the file, unless the path of the file is ignored
Glob(dirs, base, file, ignores) ==
    {d \in dirs : /\ d = base \/ HasPrefix(d, base \o <<"/">>)
                  /\ ~ShouldIgnoreSource(ignores, d \o <<"/", file>>)}

\* loadApplication: the variant is looked up in the application's own
\* APPLICATION.yaml, by name or, without a name, as its default variant
SelectedVariant(t, origin, variant) ==
    IF variant # ""
    THEN IF variant \in t.variants[origin] THEN [from |-> origin, name |-> variant]
         ELSE NoVariant
    ELSE IF t.defaultVariant[origin] THEN [from |-> origin, name |-> "default"]
    ELSE NoVariant

\* loadApplication: .gorpaignore is absent, the ignores are the directories of
\* the other APPLICATION.yaml files below the origin
Ignores(t, origin) == Glob(ApplicationDirs(t), origin, "APPLICATION.yaml", {}) \ {origin}

\* discoverComponents: the BUILD.yaml files below the origin that are not ignored
discoverComponents(t, origin) == Glob(ComponentDirs(t), origin, "BUILD.yaml", Ignores(t, origin))

\* loadComponent: the name of the component and the fully qualified name of its package
ComponentName(dir, origin) ==
    LET name == TrimPrefix(TrimPrefix(dir, origin), <<"/">>)
    IN IF name = <<>> THEN <<"//">> ELSE name
FullName(dir, origin) == ComponentName(dir, origin) \o <<":", "app">>

\* loadComponent: the package of a component of application origin
LoadedPackage(t, dir, origin, vnt) ==
    [C |-> [Origin |-> dir, W |-> origin],
     Dependencies |-> DeclaredDependencies(t, dir),
     Sources |-> VariantSources(vnt),
     Environment |-> VariantEnvironment(vnt)]

\* (mutant) the packages of the applications loaded before are not added to the index
PrelinkModifierNone(packages, loaded, wspath) == packages

\* FindNestedApplications, PrelinkModifier: the packages of the applications
\* loaded before enter the index under <relative origin>/<full name>
PrelinkModifier(packages, loaded, wspath) ==
    LET otherKey(otherloc, k) ==
            IF HasPrefix(k, <<"//">>)
            THEN filepathTrimPrefix(otherloc, wspath) \o TrimPrefix(k, <<"//">>)
            ELSE filepathTrimPrefix(otherloc, wspath) \o <<"/">> \o k
        others == UNION {{<<otherloc, k>> : k \in DOMAIN loaded[otherloc].Packages} :
                             otherloc \in DOMAIN loaded}
        keys == {otherKey(e[1], e[2]) : e \in others}
    IN [key \in DOMAIN packages \cup keys |->
          IF key \in keys
          THEN LET e == CHOOSE x \in others : otherKey(x[1], x[2]) = key
               IN loaded[e[1]].Packages[e[2]]
          ELSE packages[key]]

\* Package.link: the dependencies that are not in the index
Unlinked(packages) ==
    {dep \in UNION {packages[k].Dependencies : k \in DOMAIN packages} : dep \notin DOMAIN packages}

\* loadApplication: variant, ignores, components, index, prelink and link
loadApplicationAt(t, origin, loaded, prelink) ==
    LET vnt == SelectedVariant(t, origin, t.variant)
        comps == discoverComponents(t, origin)
        own == [k \in {FullName(d, origin) : d \in comps} |->
                   LoadedPackage(t, CHOOSE d \in comps : FullName(d, origin) = k, origin, vnt)]
        packages == IF prelink THEN PrelinkModifier(own, loaded, origin) ELSE own
    IN [Origin |-> origin,
        SelectedVariant |-> vnt,
        ignores |-> Ignores(t, origin),
        Components |-> {ComponentName(d, origin) : d \in comps},
        Packages |-> packages,
        err |-> IF Unlinked(packages) # {} THEN "unknown package" ELSE ""]


\* deepest applications first
DeepestFirst(wss) ==
    CHOOSE s \in [1..Cardinality(wss) -> wss] :
        /\ \A i, j \in DOMAIN s : s[i] = s[j] => i = j
        /\ \A i, j \in DOMAIN s : i < j => Count(s[i], "/") >= Count(s[j], "/")

InitFind ==
    /\ tree \in Trees
    /\ find = [NoFind EXCEPT !.pc = "start"]
    /\ FilterIdle
    /\ EnvIdle
    /\ ProvIdle
    /\ WatchIdle
    /\ VetIdle
    /\ SourcesIdle
    /\ deps = [p \in Pkgs |-> {}]
    /\ BuildInit
    /\ remote = [b \in Buckets |-> {}]
    /\ LoadIdle
    /\ ReadIdle
    /\ VersionIdle
    /\ CmdIdle

FindFrame == UNCHANGED <<cmdVars, deps, buildVars, loadVars, readVars, versionVars, flt, tree, env, prov, watch, vet, lc>>

\* getApplication without nested support: FindApplication loads the root alone
FindApplication ==
    /\ find.pc = "start"
    /\ ~tree.nested
    /\ find' = [find EXCEPT !.pc = "done",
                            !.res = loadApplicationAt(tree, RootDir, <<>>, FALSE)]
    /\ FindFrame

\* FindNestedApplications: the APPLICATION.yaml files below the root, deepest first
GlobApplications ==
    /\ find.pc = "start"
    /\ tree.nested
    /\ find' = [find EXCEPT !.pc = "loading",
                   !.wss = DeepestFirst(Glob(ApplicationDirs(tree), RootDir,
                                             "APPLICATION.yaml", {}))]
    /\ FindFrame

\* FindNestedApplications: the next application is loaded; an error ends the loop
LoadNestedApplication ==
    /\ find.pc = "loading"
    /\ find.wss # <<>>
    /\ LET wspath == Head(find.wss)
           sws == loadApplicationAt(tree, wspath, find.loadedApplications, TRUE)
       IN find' = IF sws.err # ""
                  THEN [find EXCEPT !.pc = "done", !.res = sws]
                  ELSE [find EXCEPT !.wss = Tail(@), !.res = sws,
                           !.loadedApplications =
                               [o \in DOMAIN find.loadedApplications \cup {wspath} |->
                                   IF o = wspath THEN sws ELSE find.loadedApplications[o]]]
    /\ FindFrame

\* FindNestedApplications: the components of the result are named after their
\* origin relative to the root
RenameComponents ==
    /\ find.pc = "loading"
    /\ find.wss = <<>>
    /\ find' = [find EXCEPT !.pc = "done",
                   !.res.Components =
                       {LET name == filepathTrimPrefix(find.res.Packages[k].C.Origin,
                                                       find.res.Origin)
                        IN IF name = <<>> THEN <<"//">> ELSE name :
                           k \in DOMAIN find.res.Packages}]
    /\ FindFrame

NextFind ==
    \/ FindApplication
    \/ GlobApplications
    \/ LoadNestedApplication
    \/ RenameComponents

SpecFind == InitFind /\ [][NextFind]_vars

\* ------------------------------------------------------------------ environment manifest
MaxEntries == 2     \* entries of environmentManifest in APPLICATION.yaml

PackageTypes == {"generic", "go", "yarn"}

\* the names of the entries in ascending order of their strings
NameOrder == <<"arch", "gcc", "go", "node", "os", "yarn">>
Rank(name) == CHOOSE i \in DOMAIN NameOrder : NameOrder[i] = name

Entry(name, command, builtin) ==
    [Name |-> name, Command |-> command, Builtin |-> builtin, Value |-> ""]

\* defaultEnvManifestEntries
defaultEnvManifestEntries(tpe) ==
    IF tpe = "" THEN {Entry("os", "goos", TRUE), Entry("arch", "goarch", TRUE)}
    ELSE IF tpe = "go" THEN {Entry("go", "go version", FALSE)}
    ELSE IF tpe = "yarn" THEN {Entry("yarn", "yarn -v", FALSE),
                               Entry("node", "node --version", FALSE)}
    ELSE {}

\* the entries an APPLICATION.yaml of the model can list
UserEntries == {Entry("gcc", "gcc --version", FALSE), Entry("gcc", "cc --version", FALSE),
                Entry("go", "go env GOVERSION", FALSE)}
UserManifests == UNION {[1..n -> UserEntries] : n \in 0..MaxEntries}

\* the commands that may fail on the host
Fallible == {"go version", "gcc --version"}

\* what a command prints, trimmed
Output(command) == <<"output of", command>>

\* (mutant) a default entry is kept when the user lists an entry of its name
CollectEntriesDefaultsKept(entries, pkgtpes) ==
    LET defaults == defaultEnvManifestEntries("")
                    \cup UNION {defaultEnvManifestEntries(tpe) : tpe \in pkgtpes}
        taken == {e.Name : e \in defaults}
        listed == {entries[i].Name : i \in DOMAIN entries}
    IN [n \in taken \cup listed |->
          IF n \in taken THEN CHOOSE e \in defaults : e.Name = n
          ELSE LET last == CHOOSE i \in DOMAIN entries :
                              /\ entries[i].Name = n
                              /\ \A j \in DOMAIN entries : entries[j].Name = n => j <= i
               IN entries[last]]

\* buildEnvironmentManifest: the map from names to entries; the built-in entries,
\* then the defaults of the package types used, then the user's entries in the
\* order they are listed, each put under its name
CollectEntries(entries, pkgtpes) ==
    LET defaults == defaultEnvManifestEntries("")
                    \cup UNION {defaultEnvManifestEntries(tpe) : tpe \in pkgtpes}
        listed == {entries[i].Name : i \in DOMAIN entries}
    IN [n \in {e.Name : e \in defaults} \cup listed |->
          IF n \in listed
          THEN LET last == CHOOSE i \in DOMAIN entries :
                              /\ entries[i].Name = n
                              /\ \A j \in DOMAIN entries : entries[j].Name = n => j <= i
               IN entries[last]
          ELSE CHOOSE e \in defaults : e.Name = n]

\* sort.Slice(res, by Name)
SortByName(res) ==
    CHOOSE s \in [1..Cardinality(res) -> res] :
        /\ \A i, j \in DOMAIN s : s[i] = s[j] => i = j
        /\ \A i, j \in DOMAIN s : i < j => Rank(s[i].Name) <= Rank(s[j].Name)

\* loadApplication calls buildEnvironmentManifest with the entries of
\* APPLICATION.yaml and the package types used; the map is built
InitEnv ==
    /\ env \in {[NoManifest EXCEPT !.pkgtpes = t, !.entries = u, !.failing = f,
                    !.pc = "resolve",
                    !.envmf = CollectEntries(u, t),
                    !.todo = DOMAIN CollectEntries(u, t)] :
                   t \in SUBSET PackageTypes, u \in UserManifests, f \in SUBSET Fallible}
    /\ FilterIdle
    /\ FindIdle
    /\ ProvIdle
    /\ WatchIdle
    /\ VetIdle
    /\ SourcesIdle
    /\ deps = [p \in Pkgs |-> {}]
    /\ BuildInit
    /\ remote = [b \in Buckets |-> {}]
    /\ LoadIdle
    /\ ReadIdle
    /\ VersionIdle
    /\ CmdIdle

EnvFrame == UNCHANGED <<cmdVars, deps, buildVars, loadVars, readVars, versionVars, flt, tree, find, prov, watch, vet, lc>>

\* the loop over the map, in the order the map yields: a built-in entry gets
\* the value of the runtime, another entry the output of its command; a command
\* that fails ends the function with an error
ResolveEntry(k) ==
    /\ env.pc = "resolve"
    /\ k \in env.todo
    /\ LET e == env.envmf[k]
       IN env' = IF e.Builtin
                 THEN [env EXCEPT !.todo = @ \ {k},
                          !.res = @ \cup {[e EXCEPT !.Value =
                                      IF e.Command = "goarch" THEN "amd64" ELSE "linux"]}]
                 ELSE IF e.Command \in env.failing
                 THEN [env EXCEPT !.pc = "done", !.res = {},
                                  !.err = "cannot resolve env manifest entry"]
                 ELSE [env EXCEPT !.todo = @ \ {k},
                          !.res = @ \cup {[e EXCEPT !.Value = Output(e.Command)]}]
    /\ EnvFrame

\* the map is exhausted: the result is sorted by name and returned
SortEntries ==
    /\ env.pc = "resolve"
    /\ env.todo = {}
    /\ env' = [env EXCEPT !.pc = "done", !.sorted = SortByName(env.res)]
    /\ EnvFrame

NextEnv ==
    \/ \E k \in DOMAIN env.envmf : ResolveEntry(k)
    \/ SortEntries

SpecEnv == InitEnv /\ [][NextEnv]_vars

\* ------------------------------------------------------------------ provenance bundles
\* the Git state of the component: clean, dirty, no repository, no remote
GitInfos == {[Commit |-> "c0ffee", Origin |-> "github.com/org/repo", Dirty |-> FALSE],
             [Commit |-> "c0ffee", Origin |-> "github.com/org/repo", Dirty |-> TRUE],
             [Commit |-> "", Origin |-> "", Dirty |-> FALSE],
             [Commit |-> "c0ffee", Origin |-> "", Dirty |-> FALSE]}

\* Package.Sources of the package built and the content of the files
TargetSources == << <<"root", "/", "comp", "/", "main.go">>,
                    <<"root", "/", "comp", "/", "go.mod">> >>
FileContent(src) == IF src[Len(src)] = "main.go" THEN "package main" ELSE "module comp"
Sha256(content) == <<"sha256 of", content>>

\* the envelope an earlier build of package q packed into q's archive, as one line
EarlierEnvelope(q) == [EntryPoint |-> q, Materials |-> <<"earlier build">>]

\* what the local cache holds for a package: nothing, an archive without
\* provenance-bundle.jsonl, an archive with the package's own envelope, or one
\* with the envelopes of the package and of its transitive dependencies
ArchiveKinds == {"absent", "no bundle", "own", "complete"}
BundleIn(d, kinds, q) ==
    IF kinds[q] = "own" THEN {EarlierEnvelope(q)}
    ELSE {EarlierEnvelope(r) : r \in {q} \cup GetTransitiveDependencies(d, q)}

\* (mutant) the lines of the archive's bundle are not put into the set
extractBundleFromCachedArchiveEmpty(d, kinds, dep, out) ==
    IF kinds[dep] = "no bundle"
    THEN [err |-> "dependency has no provenance bundle", out |-> out]
    ELSE [err |-> "", out |-> out]

\* extractBundleFromCachedArchive: every line of provenance-bundle.jsonl enters
\* the set; an archive without that file is an error
extractBundleFromCachedArchive(d, kinds, dep, out) ==
    IF kinds[dep] = "no bundle"
    THEN [err |-> "dependency has no provenance bundle", out |-> out]
    ELSE [err |-> "", out |-> out \cup BundleIn(d, kinds, dep)]

\* Package.inTotoMaterials: every source file with its digest, the path made
\* relative to the origin of the application
inTotoMaterials(sources, origin) ==
    [i \in DOMAIN sources |->
        [URI |-> <<"file://">> \o TrimPrefix(TrimPrefix(sources[i], origin), <<"/">>),
         Digest |-> Sha256(FileContent(sources[i]))]]

\* Package.ProduceSLSAEnvelope: the envelope of package p, or an error
ProduceSLSAEnvelope(p, git) ==
    IF git.Commit = "" \/ git.Origin = ""
    THEN [err |-> "Git provenance is unclear", env |-> <<>>]
    ELSE [err |-> "",
          env |-> [EntryPoint |-> p,
                   Materials |-> IF git.Dirty
                                 THEN inTotoMaterials(TargetSources, RootDir)
                                 ELSE << [URI |-> <<"git+", git.Origin>>,
                                          Digest |-> git.Commit] >>]]

\* the lines written for the entries of the set, each entry once
LinesOf(bundle) ==
    CHOOSE s \in [1..Cardinality(bundle) -> bundle] :
        \A i, j \in DOMAIN s : s[i] = s[j] => i = j

\* the build of the target calls writeProvenance; the cache holds what earlier
\* builds left of the other packages
InitProv ==
    /\ deps \in {Chain, Flat}
    /\ prov \in {[NoProv EXCEPT !.pc = "start", !.enabled = e, !.slsa = s, !.git = g,
                     !.archives = a] :
                    e \in BOOLEAN, s \in BOOLEAN, g \in GitInfos,
                    a \in [Pkgs \ {Target} -> ArchiveKinds]}
    /\ FilterIdle
    /\ FindIdle
    /\ EnvIdle
    /\ WatchIdle
    /\ VetIdle
    /\ SourcesIdle
    /\ BuildInit
    /\ remote = [b \in Buckets |-> {}]
    /\ LoadIdle
    /\ ReadIdle
    /\ VersionIdle
    /\ CmdIdle

ProvFrame == UNCHANGED <<cmdVars, deps, buildVars, loadVars, readVars, versionVars, flt, tree, find, env, watch, vet, lc>>

\* writeProvenance: nothing is done unless provenance is enabled
WriteProvenanceBegin ==
    /\ prov.pc = "start"
    /\ prov' = IF ~prov.enabled THEN [prov EXCEPT !.pc = "done"]
               ELSE [prov EXCEPT !.pc = "dependencies",
                                 !.todo = GetTransitiveDependencies(deps, Target)]
    /\ ProvFrame

\* getDependenciesProvenanceBundles: the next transitive dependency; one that is
\* not in the local cache or whose archive has no bundle ends writeProvenance
ExtractDependency(dep) ==
    /\ prov.pc = "dependencies"
    /\ dep \in prov.todo
    /\ prov' = IF prov.archives[dep] = "absent"
               THEN [prov EXCEPT !.pc = "done", !.err = "PkgNotBuiltErr"]
               ELSE LET r == extractBundleFromCachedArchive(deps, prov.archives, dep,
                                                            prov.bundle)
                    IN IF r.err # ""
                       THEN [prov EXCEPT !.pc = "done", !.err = r.err]
                       ELSE [prov EXCEPT !.todo = @ \ {dep}, !.bundle = r.out]
    /\ ProvFrame

\* writeProvenance: with SLSA on the envelope of the package enters the set
ProduceEnvelope ==
    /\ prov.pc = "dependencies"
    /\ prov.todo = {}
    /\ prov' = IF ~prov.slsa THEN [prov EXCEPT !.pc = "write"]
               ELSE LET r == ProduceSLSAEnvelope(Target, prov.git)
                    IN IF r.err # ""
                       THEN [prov EXCEPT !.pc = "done", !.err = r.err, !.produced = r,
                                         !.attempted = TRUE]
                       ELSE [prov EXCEPT !.pc = "write", !.produced = r,
                                         !.attempted = TRUE,
                                         !.bundle = @ \cup {r.env}]
    /\ ProvFrame

\* writeProvenance: the entries of the set are written to the bundle file
WriteBundleFile ==
    /\ prov.pc = "write"
    /\ prov' = [prov EXCEPT !.pc = "done", !.written = TRUE,
                            !.file = LinesOf(prov.bundle)]
    /\ ProvFrame

NextProv ==
    \/ WriteProvenanceBegin
    \/ \E dep \in Pkgs : ExtractDependency(dep)
    \/ ProduceEnvelope
    \/ WriteBundleFile

SpecProv == InitProv /\ [][NextProv]_vars

\* ------------------------------------------------------------------ the source watcher
MaxEvents == 3      \* file events and watcher errors the run sees

\* the files that change: a source of the package, a file next to it that no
\* source pattern matches, a source in a folder below
WatchedFiles == {<<"src", "/", "main.go">>, <<"src", "/", "notes.txt">>,
                 <<"src", "/", "sub", "/", "new.go">>}
SourceFolder == <<"src">>

\* filepath.Dir
Dir(path) == SubSeq(path, 1, Len(path) - 2)

\* doublestar.Match of the package's source pattern "**/*.go" on a relative path
Match(path) == path # <<>> /\ path[Len(path)] \in {"main.go", "new.go"}

\* pathMatcher.Matches: the path lies under the base and a pattern matches the rest
Matches(base, path) ==
    /\ HasPrefix(path, base)
    /\ Match(TrimPrefix(TrimPrefix(path, base), <<"/">>))

\* WatchSources has returned its channels, the goroutine waits in its select
InitWatch ==
    /\ watch = [NoWatch EXCEPT !.pc = "select", !.matcher = <<SourceFolder>>]
    /\ FilterIdle
    /\ FindIdle
    /\ EnvIdle
    /\ ProvIdle
    /\ VetIdle
    /\ SourcesIdle
    /\ deps = [p \in Pkgs |-> {}]
    /\ BuildInit
    /\ remote = [b \in Buckets |-> {}]
    /\ LoadIdle
    /\ ReadIdle
    /\ VersionIdle
    /\ CmdIdle

WatchFrame == UNCHANGED <<cmdVars, deps, buildVars, loadVars, readVars, versionVars, flt, tree, find,
                          env, prov, vet, lc>>

Seen == watch.seen < MaxEvents

\* a file changes: fsnotify queues the event unless the watcher is closed
FileEvent(name) ==
    /\ Seen
    /\ watch' = IF watch.closed
                THEN [watch EXCEPT !.missed = Append(@, name), !.seen = @ + 1]
                ELSE [watch EXCEPT !.Events = Append(@, name), !.seen = @ + 1]
    /\ WatchFrame

\* fsnotify reports an error
WatcherError ==
    /\ Seen
    /\ ~watch.closed
    /\ watch' = [watch EXCEPT !.Errors = @ + 1, !.seen = @ + 1]
    /\ WatchFrame

\* the caller cancels the context
Cancel ==
    /\ ~watch.cancelled
    /\ watch' = [watch EXCEPT !.cancelled = TRUE]
    /\ WatchFrame

\* case evt := <-watcher.Events, up to the send on the changed channel: an
\* event that matches no source pattern makes the goroutine return, which
\* closes the watcher
ReceiveEvent ==
    /\ watch.pc = "select"
    /\ watch.Events # <<>>
    /\ LET evt == Head(watch.Events)
           matches == \E i \in DOMAIN watch.matcher : Matches(watch.matcher[i], evt)
       IN watch' = IF ~matches
                   THEN [watch EXCEPT !.Events = Tail(@), !.pc = "returned",
                                      !.closed = TRUE]
                   ELSE [watch EXCEPT !.Events = Tail(@), !.pc = "send", !.evt = evt,
                            !.matcher = IF Dir(evt) # SourceFolder
                                        THEN Append(@, Dir(evt)) ELSE @]
    /\ WatchFrame

\* chng <- evt.Name: the caller receives from the unbuffered channel
SendChanged ==
    /\ watch.pc = "send"
    /\ watch' = [watch EXCEPT !.pc = "select", !.changed = Append(@, watch.evt),
                              !.evt = <<>>]
    /\ WatchFrame

\* case err := <-watcher.Errors
ReceiveError ==
    /\ watch.pc = "select"
    /\ watch.Errors > 0
    /\ watch' = [watch EXCEPT !.Errors = @ - 1, !.pc = "senderr"]
    /\ WatchFrame

\* errchan <- err: the channel has room for one error
SendError ==
    /\ watch.pc = "senderr"
    /\ watch.errchan = 0
    /\ watch' = [watch EXCEPT !.errchan = 1, !.pc = "select"]
    /\ WatchFrame

\* the caller reads the error
ReadError ==
    /\ watch.errchan = 1
    /\ watch' = [watch EXCEPT !.errchan = 0]
    /\ WatchFrame

\* case <-ctx.Done(): the goroutine returns and closes the watcher
ContextDone ==
    /\ watch.pc = "select"
    /\ watch.cancelled
    /\ watch' = [watch EXCEPT !.pc = "returned", !.closed = TRUE]
    /\ WatchFrame

NextWatch ==
    \/ \E name \in WatchedFiles : FileEvent(name)
    \/ WatcherError
    \/ Cancel
    \/ ReceiveEvent
    \/ SendChanged
    \/ ReceiveError
    \/ SendError
    \/ ReadError
    \/ ContextDone

SpecWatch == InitWatch /\ [][NextWatch]_vars

\* The goroutine is scheduled: a step of its own that stays possible is taken.
\* The steps that need the caller, the receive from the changed channel
\* (SendChanged) and the read of the error channel (ReadError), may never come.
SpecWatchLive ==
    /\ InitWatch
    /\ [][NextWatch]_vars
    /\ WF_vars(ReceiveEvent)
    /\ WF_vars(ReceiveError)
    /\ WF_vars(SendError)
    /\ WF_vars(ContextDone)

\* ------------------------------------------------------------------ vet
NChecks == 2        \* registered package checks

Checks == 1..NChecks
VetPackages == {"comp:app", "comp:lib"}

\* what RunPkg of a check returns for a package: no finding, a finding that is
\* a warning, a finding that is an error, or an error of the check itself
Outcomes == {"nothing", "warning", "error", "failed"}

\* gorpa vet is started: the application is loaded, no --checks, --packages or
\* --components given
InitVet ==
    /\ vet \in {[NoVet EXCEPT !.pc = "run", !.ignoreWarnings = w, !.outcome = o,
                    !.torun = Checks \X VetPackages] :
                   w \in BOOLEAN, o \in [Checks \X VetPackages -> Outcomes]}
    /\ FilterIdle
    /\ FindIdle
    /\ EnvIdle
    /\ ProvIdle
    /\ WatchIdle
    /\ SourcesIdle
    /\ deps = [p \in Pkgs |-> {}]
    /\ BuildInit
    /\ remote = [b \in Buckets |-> {}]
    /\ LoadIdle
    /\ ReadIdle
    /\ VersionIdle
    /\ CmdIdle

VetFrame == UNCHANGED <<cmdVars, deps, buildVars, loadVars, readVars, versionVars, flt, tree, find,
                        env, prov, watch, lc>>

\* vet.Run, runPkgCheck: the checks in their order, the packages in the order
\* of the map; the findings of a check are appended, its error is recorded
RunPkgCheck(c, p) ==
    /\ vet.pc = "run"
    /\ <<c, p>> \in vet.torun
    /\ \A e \in vet.torun : c <= e[1]
    /\ LET o == vet.outcome[<<c, p>>]
       IN vet' = [vet EXCEPT
                     !.torun = @ \ {<<c, p>>},
                     !.errs = IF o = "failed" THEN Append(@, <<p, c>>) ELSE @,
                     !.findings = IF o \in {"warning", "error"}
                                  THEN Append(@, [Check |-> c, Package |-> p,
                                                  Error |-> (o = "error")])
                                  ELSE @]
    /\ VetFrame

\* vetCmd: with --ignore-warnings only the findings that are errors are kept
IgnoreWarnings ==
    /\ vet.pc = "run"
    /\ vet.torun = {}
    /\ vet' = [vet EXCEPT !.pc = "report",
                  !.findings = IF vet.ignoreWarnings
                               THEN SelectSeq(@, LAMBDA x : x.Error) ELSE @]
    /\ VetFrame

\* vetCmd: errors of checks are logged and the command returns nil; otherwise
\* the findings are written and the process exits with 0 or 128
Report ==
    /\ vet.pc = "report"
    /\ vet' = [vet EXCEPT !.pc = "exited",
                  !.written = (Len(vet.errs) = 0),
                  !.exit = IF Len(vet.errs) # 0 THEN 0
                           ELSE IF Len(vet.findings) = 0 THEN 0 ELSE 128]
    /\ VetFrame

NextVet ==
    \/ \E c \in Checks, p \in VetPackages : RunPkgCheck(c, p)
    \/ IgnoreWarnings
    \/ Report

SpecVet == InitVet /\ [][NextVet]_vars

\* ------------------------------------------------------------------ the sources of a package
\* the files a component directory can hold
ComponentFiles == {"main.go", "gen.go", "extra.txt"}
GoFiles == {"main.go", "gen.go"}

\* the source patterns of the package: one that matches the Go files and the
\* pattern of the test fixtures, which matches no file
SourcePatterns == {"*.go", "doesNotExist"}

\* resolveSources on one pattern: the files of the component it matches
resolveSourcesIn(files, pattern) == IF pattern = "*.go" THEN files \cap GoFiles ELSE {}

\* the variants of the model: none, or the README's nogo variant, which
\* excludes the Go files
SourceVariants == {"none", "nogo"}

\* PackageVariant.ResolveSources: the files the variant includes and excludes
VariantResolveSources(vnt, files) ==
    IF vnt = "nogo" THEN [incl |-> {}, excl |-> files \cap GoFiles]
    ELSE [incl |-> {}, excl |-> {}]

\* (mutant) a missing additional source is not noticed
StatIsNotExistNever(files, fn) == FALSE

\* os.Stat(fn) with os.IsNotExist: the file does not exist
StatIsNotExist(files, fn) == fn \notin files

\* loadComponent has parsed BUILD.yaml and comes to the sources of the package
InitSources ==
    /\ lc \in {[NoSources EXCEPT !.pc = "resolve", !.files = f, !.srcs = s,
                   !.additional = a, !.variant = v] :
                  f \in SUBSET ComponentFiles, s \in SourcePatterns,
                  a \in SUBSET {"extra.txt"}, v \in SourceVariants}
    /\ FilterIdle
    /\ FindIdle
    /\ EnvIdle
    /\ ProvIdle
    /\ WatchIdle
    /\ VetIdle
    /\ deps = [p \in Pkgs |-> {}]
    /\ BuildInit
    /\ remote = [b \in Buckets |-> {}]
    /\ LoadIdle
    /\ ReadIdle
    /\ VersionIdle
    /\ CmdIdle

SourcesFrame == UNCHANGED <<cmdVars, deps, buildVars, loadVars, readVars, versionVars, flt, tree, find,
                            env, prov, watch, vet>>

\* pkg.Sources, err = resolveSources(...): the patterns are expanded
ResolveSources ==
    /\ lc.pc = "resolve"
    /\ lc' = [lc EXCEPT !.pc = "additional",
                        !.completeSources = resolveSourcesIn(lc.files, lc.srcs)]
    /\ SourcesFrame

\* the additional sources are added; one that does not exist fails the load
\* with an error that begins with the name of the component
AddAdditionalSources ==
    /\ lc.pc = "additional"
    /\ lc' = IF \E src \in lc.additional : StatIsNotExist(lc.files, src)
             THEN [lc EXCEPT !.pc = "done", !.err = "comp: file does not exist"]
             ELSE [lc EXCEPT !.pc = "variant",
                             !.completeSources = @ \cup lc.additional]
    /\ SourcesFrame

\* the selected variant adds its included files and removes its excluded ones
ApplyVariantSources ==
    /\ lc.pc = "variant"
    /\ LET r == VariantResolveSources(lc.variant, lc.files)
       IN lc' = [lc EXCEPT !.pc = "store",
                    !.completeSources = IF lc.variant = "none" THEN @
                                        ELSE (@ \cup r.incl) \ r.excl]
    /\ SourcesFrame

\* pkg.Sources becomes the list of the complete sources; the package is loaded
StoreSources ==
    /\ lc.pc = "store"
    /\ lc' = [lc EXCEPT !.pc = "done", !.loaded = TRUE, !.Sources = lc.completeSources]
    /\ SourcesFrame

NextSources ==
    \/ ResolveSources
    \/ AddAdditionalSources
    \/ ApplyVariantSources
    \/ StoreSources

SpecSources == InitSources /\ [][NextSources]_vars

\* ------------------------------------------------------------------ discoverComponents
\* every variable of the other specifications at its idle value, and left alone
RestIdle ==
    /\ BuildInit
    /\ remote = [b \in Buckets |-> {}]
    /\ LoadIdle
    /\ ReadIdle
    /\ VersionIdle
    /\ ToolIdle
OthersIdle ==
    /\ deps = [p \in Pkgs |-> {}]
    /\ RestIdle
OthersFrame == UNCHANGED <<deps, buildVars, loadVars, readVars, versionVars, toolVars>>

\* the number of BUILD.yaml files doublestar.Glob returns (none of them ignored:
\* Glob is handed ShouldIgnoreSource, which ShouldIgnoreComponent repeats)
NFiles == 3
\* the capacity of cchan: make(chan *Component, 20), scaled down with NFiles
ChanCap == 1

\* what a BUILD.yaml holds: whether loadComponent fails on it, the name of the
\* component, the dependencies of its package
BuildFiles ==
    {[load |-> "fail", name |-> "keep", deps |-> <<>>],
     [load |-> "ok", name |-> "keep", deps |-> <<>>],
     [load |-> "ok", name |-> "gone", deps |-> <<>>],
     [load |-> "ok", name |-> "keep", deps |-> <<<<"gone", "a">>, <<"gone", "b">>>>]}

\* the loop of filterExcludedComponents over p.Dependencies, from index i on:
\* the list that is left, or a panic for an index beyond the shortened slice
RECURSIVE filterRange(_, _, _, _)
filterRange(orig, arr, len, i) ==
    IF i = Len(orig) THEN [panic |-> FALSE, deps |-> SubSeq(arr, 1, len)]
    ELSE LET segs == arr[i + 1]
         IN IF Len(segs) # 2 \/ ~ExcludeComponent(segs[1])
            THEN filterRange(orig, arr, len, i + 1)
            ELSE IF i >= len
            THEN [panic |-> TRUE, deps |-> <<>>]
            ELSE filterRange(orig, [arr EXCEPT ![i + 1] = arr[len]], len - 1, i + 1)

\* filterExcludedComponents(variant, c)
filterExcludedComponents(variant, c) ==
    IF variant = "none" THEN [ignore |-> FALSE, panic |-> FALSE, deps |-> c.deps]
    ELSE IF ExcludeComponent(c.name) THEN [ignore |-> TRUE, panic |-> FALSE, deps |-> c.deps]
    ELSE LET r == filterRange(c.deps, c.deps, Len(c.deps), 0)
         IN [ignore |-> FALSE, panic |-> r.panic, deps |-> r.deps]

InitDiscover ==
    /\ disc \in {[pc |-> "spawn", variant |-> v, files |-> fs0, next |-> 1,
                  g |-> [k \in 1..NFiles |-> "none"], cchan |-> <<>>, closed |-> FALSE,
                  col |-> "none", comps |-> <<>>, err |-> FALSE, crashed |-> ""] :
                    v \in {"none", "v"}, fs0 \in [1..NFiles -> BuildFiles]}
    /\ OthersIdle
    /\ IgnoreIdle
    /\ ServeIdle
    /\ AssertIdle
    /\ FmtIdle
    /\ ExecIdle
    /\ DescribeIdle
    /\ SaveIdle

DiscoverFrame == /\ OthersFrame
                 /\ UNCHANGED <<ign, srv, asrt, fmtf, exe, desc, sav>>

Alive == disc.crashed = ""

\* for _, pth := range pths { eg.Go(...) }: the next goroutine is started
GoLoad ==
    /\ Alive
    /\ disc.pc = "spawn"
    /\ disc.next <= NFiles
    /\ disc' = [disc EXCEPT !.g[disc.next] = "loading", !.next = @ + 1]
    /\ DiscoverFrame

\* go func() { for c := range cchan ... }(): the collector is started after the loop
GoCollect ==
    /\ Alive
    /\ disc.pc = "spawn"
    /\ disc.next > NFiles
    /\ disc' = [disc EXCEPT !.col = "range", !.pc = "egwait"]
    /\ DiscoverFrame

\* a loader: loadComponent returns; an error ends the goroutine with that error
LoadComponent(k) ==
    /\ Alive
    /\ disc.g[k] = "loading"
    /\ disc' = IF disc.files[k].load = "fail"
               THEN [disc EXCEPT !.g[k] = "failed", !.err = TRUE]
               ELSE [disc EXCEPT !.g[k] = "send"]
    /\ DiscoverFrame

\* a loader: cchan <- &comp; it blocks while the buffer is full, it panics on a
\* closed channel
SendComponent(k) ==
    /\ Alive
    /\ disc.g[k] = "send"
    /\ disc.closed \/ Len(disc.cchan) < ChanCap
    /\ disc' = IF disc.closed
               THEN [disc EXCEPT !.crashed = "send on closed channel"]
               ELSE [disc EXCEPT !.cchan = Append(@, k), !.g[k] = "done"]
    /\ DiscoverFrame

\* the collector: one iteration of for c := range cchan
Collect ==
    /\ Alive
    /\ disc.col = "range"
    /\ disc.cchan # <<>>
    /\ LET k == Head(disc.cchan)
           f == filterExcludedComponents(disc.variant, disc.files[k])
           rest == [disc EXCEPT !.cchan = Tail(@)]
       IN disc' = IF f.panic THEN [rest EXCEPT !.crashed = "index out of range"]
                  ELSE IF f.ignore THEN rest
                  ELSE [rest EXCEPT !.comps = Append(@, [file |-> k, deps |-> f.deps])]
    /\ DiscoverFrame

\* the collector: the channel is closed and drained; wg.Done()
CollectEnd ==
    /\ Alive
    /\ disc.col = "range"
    /\ disc.cchan = <<>>
    /\ disc.closed
    /\ disc' = [disc EXCEPT !.col = "done"]
    /\ DiscoverFrame

\* err = eg.Wait(): every loader has returned; close(cchan); an error is returned
\* at once
WaitAndClose ==
    /\ Alive
    /\ disc.pc = "egwait"
    /\ \A k \in 1..NFiles : disc.g[k] \in {"done", "failed"}
    /\ disc' = [disc EXCEPT !.closed = TRUE,
                            !.pc = IF disc.err THEN "error" ELSE "wgwait"]
    /\ DiscoverFrame

\* wg.Wait(); return comps, nil
ReturnComponents ==
    /\ Alive
    /\ disc.pc = "wgwait"
    /\ disc.col = "done"
    /\ disc' = [disc EXCEPT !.pc = "returned"]
    /\ DiscoverFrame

NextDiscover ==
    \/ GoLoad
    \/ GoCollect
    \/ \E k \in 1..NFiles : LoadComponent(k)
    \/ \E k \in 1..NFiles : SendComponent(k)
    \/ Collect
    \/ CollectEnd
    \/ WaitAndClose
    \/ ReturnComponents

SpecDiscover == InitDiscover /\ [][NextDiscover]_vars

\* ------------------------------------------------------------------ .gorpaignore
\* the longest .gorpaignore, in letters; "\n" is a letter
MaxIgnoreLen == 3

\* strings.Split(s, sep) for a separator of one letter: the pieces between the
\* separators, empty pieces included; a string without separator is one piece
RECURSIVE Split(_, _)
Split(s, sep) ==
    IF \A i \in DOMAIN s : s[i] # sep THEN <<s>>
    ELSE LET i == CHOOSE i \in DOMAIN s : s[i] = sep /\ \A j \in 1..(i - 1) : s[j] # sep
         IN <<SubSeq(s, 1, i - 1)>> \o Split(SubSeq(s, i + 1, Len(s)), sep)

\* what .gorpaignore may hold
IgnoreFiles == UNION {[1..n -> {"comp", "base", "\n"}] : n \in 0..MaxIgnoreLen}

\* the paths discovery asks about
DiscoveredPaths == {CompDir \o <<"/", "BUILD.yaml">>, BaseDir \o <<"/", "BUILD.yaml">>,
                    LibDir \o <<"/", "BUILD.yaml">>}

InitIgnore ==
    /\ ign \in {[pc |-> "stat", exists |-> e, fc |-> fc, nested |-> n, ignores |-> <<>>,
                 asked |-> [p \in DiscoveredPaths |-> "?"]] :
                    e \in BOOLEAN, fc \in IgnoreFiles, n \in BOOLEAN}
    /\ ign.exists \/ ign.fc = <<>>
    /\ OthersIdle
    /\ DiscoverIdle
    /\ ServeIdle
    /\ AssertIdle
    /\ FmtIdle
    /\ ExecIdle
    /\ DescribeIdle
    /\ SaveIdle

IgnoreFrame == /\ OthersFrame
               /\ UNCHANGED <<disc, srv, asrt, fmtf, exe, desc, sav>>

\* loadApplication: .gorpaignore, when it exists, is split at the newlines
ReadIgnoreFile ==
    /\ ign.pc = "stat"
    /\ ign' = [ign EXCEPT !.pc = "glob",
                          !.ignores = IF ign.exists THEN Split(ign.fc, "\n") ELSE <<>>]
    /\ IgnoreFrame

\* loadApplication: the directory of every other APPLICATION.yaml is appended
AppendOtherApplications ==
    /\ ign.pc = "glob"
    /\ ign' = [ign EXCEPT !.pc = "ready",
                          !.ignores = IF ign.nested THEN Append(@, InnerDir) ELSE @]
    /\ IgnoreFrame

\* discovery asks application.ShouldIgnoreSource(path)
AskShouldIgnoreSource(path) ==
    /\ ign.pc = "ready"
    /\ ign.asked[path] = "?"
    /\ ign' = [ign EXCEPT !.asked[path] =
                  IF ShouldIgnoreSource({ign.ignores[i] : i \in DOMAIN ign.ignores}, path)
                  THEN "ignored" ELSE "kept"]
    /\ IgnoreFrame

NextIgnore ==
    \/ ReadIgnoreFile
    \/ AppendOtherApplications
    \/ \E path \in DiscoveredPaths : AskShouldIgnoreSource(path)

SpecIgnore == InitIgnore /\ [][NextIgnore]_vars

\* ------------------------------------------------------------------ build --watch --serve
\* the rebuilds the watch loop sees
MaxRebuilds == 2

\* the calls of serveBuildResult: the first build's and one per successful rebuild
Servers == 1..(MaxRebuilds + 1)

\* build --watch --serve ADDR: the first build has succeeded, its context is
\* made, go serveBuildResult(ctx, ...) is started and the loop waits for a change
InitServe ==
    /\ srv = [pc |-> "select", rebuilds |-> 0, cur |-> 1,
              ctx |-> [i \in Servers |-> FALSE],
              serve |-> [i \in Servers |-> IF i = 1 THEN "extract" ELSE "none"],
              listener |-> [i \in Servers |-> "none"],
              closed |-> [i \in Servers |-> FALSE],
              addr |-> 0, failed |-> 0, fatal |-> ""]
    /\ OthersIdle
    /\ DiscoverIdle
    /\ IgnoreIdle
    /\ AssertIdle
    /\ FmtIdle
    /\ ExecIdle
    /\ DescribeIdle
    /\ SaveIdle

ServeFrame == /\ OthersFrame
              /\ UNCHANGED <<disc, ign, asrt, fmtf, exe, desc, sav>>

Serving == srv.fatal = ""

\* case <-evt, the build succeeds: cancel(), a new context, and
\* go serveBuildResult(ctx, ...) for the new result
RebuildSucceeds ==
    /\ Serving
    /\ srv.pc = "select"
    /\ srv.rebuilds < MaxRebuilds
    /\ srv' = [srv EXCEPT !.rebuilds = @ + 1, !.ctx[srv.cur] = TRUE, !.cur = @ + 1,
                          !.serve[srv.cur + 1] = "extract"]
    /\ ServeFrame

\* case <-evt, the build fails: log.Error(err) and the loop goes on
RebuildFails ==
    /\ Serving
    /\ srv.pc = "select"
    /\ srv.rebuilds < MaxRebuilds
    /\ srv' = [srv EXCEPT !.rebuilds = @ + 1, !.failed = @ + 1]
    /\ ServeFrame

\* serveBuildResult: the artifact is located and unpacked into a temp directory
Extract(i) ==
    /\ Serving
    /\ srv.serve[i] = "extract"
    /\ srv' = [srv EXCEPT !.serve[i] = "ctxerr"]
    /\ ServeFrame

\* serveBuildResult: if ctx.Err() != nil { return }; else the server is made and
\* the goroutine with ListenAndServe is started
CheckContext(i) ==
    /\ Serving
    /\ srv.serve[i] = "ctxerr"
    /\ srv' = IF srv.ctx[i] THEN [srv EXCEPT !.serve[i] = "returned"]
              ELSE [srv EXCEPT !.serve[i] = "ctxdone", !.listener[i] = "starting"]
    /\ ServeFrame

\* server.ListenAndServe(): ErrServerClosed after Close, an error that goes to
\* log.Fatal when the address is in use, else the address is bound
ListenAndServe(i) ==
    /\ Serving
    /\ srv.listener[i] = "starting"
    /\ srv' = IF srv.closed[i] THEN [srv EXCEPT !.listener[i] = "done"]
              ELSE IF srv.addr # 0 THEN [srv EXCEPT !.fatal = "address already in use"]
              ELSE [srv EXCEPT !.listener[i] = "serving", !.addr = i]
    /\ ServeFrame

\* <-ctx.Done(); server.Close(): the listener, if there is one, is closed and
\* the address released
ServerClose(i) ==
    /\ Serving
    /\ srv.serve[i] = "ctxdone"
    /\ srv.ctx[i]
    /\ srv' = [srv EXCEPT !.serve[i] = "returned", !.closed[i] = TRUE,
                          !.listener[i] = IF @ = "serving" THEN "done" ELSE @,
                          !.addr = IF srv.listener[i] = "serving" THEN 0 ELSE @]
    /\ ServeFrame

NextServe ==
    \/ RebuildSucceeds
    \/ RebuildFails
    \/ \E i \in Servers : Extract(i)
    \/ \E i \in Servers : CheckContext(i)
    \/ \E i \in Servers : ListenAndServe(i)
    \/ \E i \in Servers : ServerClose(i)

SpecServe == InitServe /\ [][NextServe]_vars

\* ------------------------------------------------------------------ provenance assert
\* the envelopes of the largest bundle
MaxEnvelopes == 2

\* gorpa.ProvenanceBuilderID and the builder ids of envelopes
ProvenanceBuilderID == <<"github.com/bhojpur/gorpa">>
BuilderIDs == {ProvenanceBuilderID \o <<":", "1">>, ProvenanceBuilderID \o <<":", "2">>,
               <<"example.com/other">>}
\* the URIs of materials
GitURI == <<"git+", "origin">>
FileURI == <<"file://", "main.go">>
\* the statement of an in-toto envelope: its builder id and its materials
Statements == [builder : BuilderIDs, materials : {<<>>, <<GitURI>>, <<GitURI, FileURI>>}]
Bundles == UNION {[1..n -> Statements] : n \in 1..MaxEnvelopes}

\* the command lines: the flags init() registers, --signed left off
CommandLines ==
    {[n \in {"signed", "built-with-gorpa", "built-with-gorpa-version", "git-only"} |->
        CASE n = "signed" -> FALSE
          [] n = "built-with-gorpa" -> b
          [] n = "built-with-gorpa-version" -> v
          [] n = "git-only" -> g] :
            b \in BOOLEAN, v \in {"", "1"}, g \in BOOLEAN}

\* cmd.Flags().GetBool(name) and GetString(name) with the error dropped: a name
\* that is not registered yields the zero value
GetBool(flags, name) == IF name \in DOMAIN flags THEN flags[name] ELSE FALSE
GetString(flags, name) == IF name \in DOMAIN flags THEN flags[name] ELSE ""

\* the assertions provenanceAssertCmd collects
CollectAssertions(flags) ==
    (IF GetBool(flags, "gorpa-built") THEN <<[name |-> "built-with-gorpa", version |-> ""]>> ELSE <<>>)
    \o (IF GetString(flags, "gorpa-version") # ""
        THEN <<[name |-> "built-with-gorpa-version", version |-> GetString(flags, "gorpa-version")]>>
        ELSE <<>>)
    \o (IF GetBool(flags, "git-only") THEN <<[name |-> "git-material-only", version |-> ""]>> ELSE <<>>)

\* Assertion.Run of the three assertions: whether the statement violates it
AssertBuiltWithGorpa(stmt) == ~HasPrefix(stmt.builder, ProvenanceBuilderID)
AssertBuiltWithGorpaVersion(version, stmt) ==
    /\ HasPrefix(stmt.builder, ProvenanceBuilderID)
    /\ stmt.builder # ProvenanceBuilderID \o <<":", version>>
AssertGitMaterialOnly(stmt) ==
    \E i \in DOMAIN stmt.materials :
        ~(HasPrefix(stmt.materials[i], <<"git+">>) \/ HasPrefix(stmt.materials[i], <<"git://">>))
Run(as, stmt) ==
    CASE as.name = "built-with-gorpa" -> AssertBuiltWithGorpa(stmt)
      [] as.name = "built-with-gorpa-version" -> AssertBuiltWithGorpaVersion(as.version, stmt)
      [] as.name = "git-material-only" -> AssertGitMaterialOnly(stmt)

\* Assertions.AssertStatement: the violations of one statement, in the order of
\* the assertions
RECURSIVE AssertStatement(_, _, _)
AssertStatement(a, stmt, nr) ==
    IF a = <<>> THEN <<>>
    ELSE (IF Run(Head(a), stmt) THEN <<[assertion |-> Head(a).name, envelope |-> nr]>> ELSE <<>>)
         \o AssertStatement(Tail(a), stmt, nr)

\* provenance assert <package>: the bundle is located
InitAssert ==
    /\ asrt \in {[pc |-> "flags", flags |-> f, bundle |-> b, assertions |-> <<>>, next |-> 1,
                  failures |-> <<>>, exit |-> -1] : f \in CommandLines, b \in Bundles}
    /\ OthersIdle
    /\ DiscoverIdle
    /\ IgnoreIdle
    /\ ServeIdle
    /\ FmtIdle
    /\ ExecIdle
    /\ DescribeIdle
    /\ SaveIdle

AssertFrame == /\ OthersFrame
               /\ UNCHANGED <<disc, ign, srv, fmtf, exe, desc, sav>>

\* the flags are read and the assertions collected
ReadAssertFlags ==
    /\ asrt.pc = "flags"
    /\ asrt' = [asrt EXCEPT !.pc = "decode", !.assertions = CollectAssertions(asrt.flags)]
    /\ AssertFrame

\* DecodeBundle hands the next envelope to assert: its failures are put in
\* front of the earlier ones
AssertEnvelope ==
    /\ asrt.pc = "decode"
    /\ asrt.next <= Len(asrt.bundle)
    /\ asrt' = [asrt EXCEPT !.next = @ + 1,
                   !.failures = AssertStatement(asrt.assertions, asrt.bundle[asrt.next],
                                                asrt.next) \o @]
    /\ AssertFrame

\* the bundle is read: log.Fatal("failed") with failures, else the command ends
ReportFailures ==
    /\ asrt.pc = "decode"
    /\ asrt.next > Len(asrt.bundle)
    /\ asrt' = [asrt EXCEPT !.pc = "done", !.exit = IF asrt.failures # <<>> THEN 1 ELSE 0]
    /\ AssertFrame

NextAssert ==
    \/ ReadAssertFlags
    \/ AssertEnvelope
    \/ ReportFailures

SpecAssert == InitAssert /\ [][NextAssert]_vars

\* ------------------------------------------------------------------ fmt
\* the packages of the largest BUILD.yaml
MaxPackages == 2

\* a yaml.Node: its Value and its Content; a scalar has no Content, a mapping
\* holds its keys and values in turn
Scalar(v) == [Value |-> v, Content |-> <<>>]
Collection(c) == [Value |-> "", Content |-> c]

\* the dependency names in the ascending order of their strings
ValueOrder == <<":a", ":b">>
ValueLess(v, w) ==
    (CHOOSE i \in DOMAIN ValueOrder : ValueOrder[i] = v) < (CHOOSE i \in DOMAIN ValueOrder : ValueOrder[i] = w)

\* the package entries a BUILD.yaml is written with: with or without deps, the
\* deps in or out of order, of a current or of the deprecated package type
DepsWritten == {<<>>, <<":a", ":b">>, <<":b", ":a">>}
PackageNode(tpe, ds, hasDeps) ==
    Collection(<<Scalar("name"), Scalar("app"), Scalar("type"), Scalar(tpe)>>
               \o (IF hasDeps
                   THEN <<Scalar("deps"), Collection([i \in DOMAIN ds |-> Scalar(ds[i])])>>
                   ELSE <<>>))
PackageNodes ==
    {PackageNode(t, ds, TRUE) : t \in {"go", "typescript"}, ds \in DepsWritten \ {<<>>}}
    \cup {PackageNode(t, <<>>, FALSE) : t \in {"go", "typescript"}}

\* the document node of a BUILD.yaml with these package entries
DocumentNode(pkgs) == Collection(<<Collection(<<Scalar("packages"), Collection(pkgs)>>)>>)
NoNode == Collection(<<>>)

\* the content of a file: empty, text that is not YAML, or a document written
\* with an indentation
EmptyFile == [kind |-> "empty", indent |-> 0, doc |-> NoNode]
InvalidFile == [kind |-> "invalid", indent |-> 0, doc |-> NoNode]
YamlFiles ==
    {[kind |-> "yaml", indent |-> i, doc |-> DocumentNode(pkgs)] :
        i \in {2, 4}, pkgs \in UNION {[1..n -> PackageNodes] : n \in 0..MaxPackages}}

\* sort.Slice(nde.Content, by Value)
RECURSIVE InsertNode(_, _)
InsertNode(x, s) ==
    IF s = <<>> THEN <<x>>
    ELSE IF ValueLess(x.Value, Head(s).Value) THEN <<x>> \o s
    ELSE <<Head(s)>> \o InsertNode(x, Tail(s))
RECURSIVE SortSlice(_)
SortSlice(s) == IF s = <<>> THEN <<>> ELSE InsertNode(Head(s), SortSlice(Tail(s)))

\* sortPackageDeps, the inner loop: the node after every "deps" of the mapping
\* has its Content sorted
RECURSIVE sortDepsOf(_, _)
sortDepsOf(nde, pkgIdx) ==
    IF pkgIdx > Len(nde.Content) THEN nde
    ELSE IF nde.Content[pkgIdx].Value # "deps" \/ pkgIdx = Len(nde.Content)
    THEN sortDepsOf(nde, pkgIdx + 1)
    ELSE sortDepsOf([nde EXCEPT !.Content[pkgIdx + 1].Content = SortSlice(@)], pkgIdx + 1)

\* sortPackageDeps, the outer loop over the root mapping: of the node after
\* "packages" it is Content[0] that goes through the inner loop
RECURSIVE sortPackagesOf(_, _)
sortPackagesOf(nde, rootIdx) ==
    IF rootIdx > Len(nde.Content) THEN nde
    ELSE IF nde.Content[rootIdx].Value # "packages" \/ rootIdx = Len(nde.Content)
    THEN sortPackagesOf(nde, rootIdx + 1)
    ELSE IF Len(nde.Content[rootIdx + 1].Content) < 1 THEN nde
    ELSE sortPackagesOf([nde EXCEPT !.Content[rootIdx + 1].Content[1] = sortDepsOf(@, 1)],
                        rootIdx + 1)

sortPackageDeps(n) ==
    IF Len(n.Content) < 1 THEN n
    ELSE [n EXCEPT !.Content[1] = sortPackagesOf(@, 1)]

\* searchInMapFor: the index of the node after the first key of that name, or 0
searchInMapFor(nde, key) ==
    LET hits == {i \in 1..(Len(nde.Content) - 1) : nde.Content[i].Value = key}
    IN IF hits = {} THEN 0 ELSE (CHOOSE i \in hits : \A j \in hits : i <= j) + 1

\* replaceTypescriptPackageType: every package of the deprecated type becomes a
\* yarn package (the packages written here have no config)
replaceTypeOf(nde) ==
    LET tpe == searchInMapFor(nde, "type")
    IN IF tpe = 0 THEN nde
       ELSE IF nde.Content[tpe].Value # "typescript" THEN nde
       ELSE [nde EXCEPT !.Content[tpe].Value = "yarn"]
RECURSIVE replaceTypesOf(_, _)
replaceTypesOf(nde, rootIdx) ==
    IF rootIdx > Len(nde.Content) THEN nde
    ELSE IF nde.Content[rootIdx].Value # "packages" \/ rootIdx = Len(nde.Content)
    THEN replaceTypesOf(nde, rootIdx + 1)
    ELSE IF Len(nde.Content[rootIdx + 1].Content) < 1 THEN nde
    ELSE replaceTypesOf([nde EXCEPT !.Content[rootIdx + 1].Content =
                            [k \in DOMAIN @ |-> replaceTypeOf(@[k])]], rootIdx + 1)
replaceTypescriptPackageType(n) ==
    IF Len(n.Content) < 1 THEN n
    ELSE [n EXCEPT !.Content[1] = replaceTypesOf(@, 1)]

\* FormatBUILDyaml(out, in, fixIssues): what is written to out and the error;
\* the encoder indents by 2
FormatBUILDyaml(in, fixIssues) ==
    IF in.kind # "yaml" THEN [out |-> EmptyFile, err |-> "cannot decode"]
    ELSE LET sorted == sortPackageDeps(in.doc)
             fixed == IF fixIssues THEN replaceTypescriptPackageType(sorted) ELSE sorted
         IN [out |-> [kind |-> "yaml", indent |-> 2, doc |-> fixed], err |-> ""]

\* gorpa fmt [-i] [-f] BUILD.yaml: formatBuildYaml has opened the file
InitFmt ==
    /\ fmtf \in {[pc |-> "format", before |-> f, file |-> f, inPlace |-> i, fix |-> x,
                  buf |-> EmptyFile, stdout |-> EmptyFile, err |-> ""] :
                    f \in YamlFiles \cup {EmptyFile, InvalidFile}, i \in BOOLEAN, x \in BOOLEAN}
    /\ OthersIdle
    /\ DiscoverIdle
    /\ IgnoreIdle
    /\ ServeIdle
    /\ AssertIdle
    /\ ExecIdle
    /\ DescribeIdle
    /\ SaveIdle

FmtFrame == /\ OthersFrame
            /\ UNCHANGED <<disc, ign, srv, asrt, exe, desc, sav>>

\* err = gorpa.FormatBUILDyaml(out, f, fix): out is the buffer with -i, else
\* the standard output
Format ==
    /\ fmtf.pc = "format"
    /\ LET r == FormatBUILDyaml(fmtf.file, fmtf.fix)
       IN fmtf' = [fmtf EXCEPT !.pc = "deferred", !.err = r.err,
                      !.buf = IF fmtf.inPlace THEN r.out ELSE @,
                      !.stdout = IF fmtf.inPlace THEN @ ELSE r.out]
    /\ FmtFrame

\* the deferred function of -i, which runs on every return: f.Seek(0, 0),
\* f.Truncate(0), io.Copy(f, buf)
WriteBack ==
    /\ fmtf.pc = "deferred"
    /\ fmtf' = [fmtf EXCEPT !.pc = "done",
                            !.file = IF fmtf.inPlace THEN fmtf.buf ELSE @]
    /\ FmtFrame

NextFmt ==
    \/ Format
    \/ WriteBack

SpecFmt == InitFmt /\ [][NextFmt]_vars

\* ------------------------------------------------------------------ exec
\* A range over a Go map that the loop body changes: an entry present from the
\* start to the end is produced once, an entry removed before it is reached is
\* not produced, an entry created during the range is produced or skipped.

\* Package.GetDependencies
GetDependencies(d, p) == d[p]

\* gorpa exec [--package P] [--dependencies] [--transitive-dependencies] -- cmd
\* on a loaded application, no --filter-type: pkgs holds the packages named, or
\* all packages, and the range over pkgs begins
InitExec ==
    /\ deps \in AcyclicGraphs
    /\ exe \in {[pc |-> "range", includeDeps |-> i, includeTransDeps |-> t, packages |-> sel,
                 pkgs |-> IF sel = {} THEN Pkgs ELSE sel, produced |-> {}, ran |-> {}] :
                    i \in BOOLEAN, t \in BOOLEAN, sel \in {{}} \cup {{p} : p \in Pkgs}}
    /\ RestIdle
    /\ DiscoverIdle
    /\ IgnoreIdle
    /\ ServeIdle
    /\ AssertIdle
    /\ FmtIdle
    /\ DescribeIdle
    /\ SaveIdle

ExecFrame == /\ OthersFrame
             /\ UNCHANGED <<disc, ign, srv, asrt, fmtf, desc, sav>>

\* the packages the range started with
Selected == IF exe.packages = {} THEN Pkgs ELSE exe.packages

\* for p := range pkgs: the next entry is produced and its dependencies, all
\* of them or the direct ones, are put into the map
RangeAdd(p) ==
    /\ exe.pc = "range"
    /\ exe.includeTransDeps \/ exe.includeDeps
    /\ p \in exe.pkgs \ exe.produced
    /\ exe' = [exe EXCEPT !.produced = @ \cup {p},
                  !.pkgs = @ \cup (IF exe.includeTransDeps
                                   THEN GetTransitiveDependencies(deps, p)
                                   ELSE GetDependencies(deps, p))]
    /\ ExecFrame

\* the range ends: every entry it started with was produced; the packages are
\* sorted and the command runs in each of them
RunCommand ==
    /\ exe.pc = "range"
    /\ (exe.includeTransDeps \/ exe.includeDeps) => Selected \subseteq exe.produced
    /\ exe' = [exe EXCEPT !.pc = "done", !.ran = exe.pkgs]
    /\ ExecFrame

NextExec ==
    \/ \E p \in Pkgs : RangeAdd(p)
    \/ RunCommand

SpecExec == InitExec /\ [][NextExec]_vars

\* ------------------------------------------------------------------ describe dependencies
\* gorpa describe dependencies [package]: with a package pkgs is that package,
\* without one allpkgs is ba.Packages and the range over it begins
InitDescribe ==
    /\ deps \in AcyclicGraphs
    /\ desc \in {[pc |-> IF a = 0 THEN "range" ELSE "print", arg |-> a, allpkgs |-> Pkgs,
                  produced |-> {}, pkgs |-> IF a = 0 THEN {} ELSE {a}, printed |-> {}] :
                    a \in 0..NPkgs}
    /\ RestIdle
    /\ DiscoverIdle
    /\ IgnoreIdle
    /\ ServeIdle
    /\ AssertIdle
    /\ FmtIdle
    /\ ExecIdle
    /\ SaveIdle

DescribeFrame == /\ OthersFrame
                 /\ UNCHANGED <<disc, ign, srv, asrt, fmtf, exe, sav>>

\* for _, p := range allpkgs: the next entry still in the map is produced and
\* its direct dependencies are deleted from the map
RangeDelete(p) ==
    /\ desc.pc = "range"
    /\ p \in desc.allpkgs \ desc.produced
    /\ desc' = [desc EXCEPT !.produced = @ \cup {p},
                            !.allpkgs = @ \ GetDependencies(deps, p)]
    /\ DescribeFrame

\* the range ends: what is left in the map becomes pkgs
CollectRoots ==
    /\ desc.pc = "range"
    /\ desc.allpkgs \subseteq desc.produced
    /\ desc' = [desc EXCEPT !.pc = "print", !.pkgs = desc.allpkgs]
    /\ DescribeFrame

\* neither --dot nor --serve: printDepTree(pkg, 0) for each package of pkgs
PrintTrees ==
    /\ desc.pc = "print"
    /\ desc' = [desc EXCEPT !.pc = "done", !.printed = desc.pkgs]
    /\ DescribeFrame

NextDescribe ==
    \/ \E p \in Pkgs : RangeDelete(p)
    \/ CollectRoots
    \/ PrintTrees

SpecDescribe == InitDescribe /\ [][NextDescribe]_vars

\* ------------------------------------------------------------------ build --save
\* the longest file, in bytes, and the saves of one build --watch --save
MaxBytes == 2
MaxSaves == 2

ByteStrings == UNION {[1..n -> {0, 1}] : n \in 0..MaxBytes}
\* the artifact of the package in the local cache: a tar.gz is never empty
Artifacts == ByteStrings \ {<<>>}

\* build --save FILE: the build has succeeded, saveBuildResult has located the
\* artifact; FILE is absent or holds some bytes
InitSave ==
    /\ sav \in {[pc |-> "open", br |-> a, exists |-> e, loc |-> f, saves |-> 0] :
                   a \in Artifacts, e \in BOOLEAN, f \in ByteStrings}
    /\ sav.exists \/ sav.loc = <<>>
    /\ OthersIdle
    /\ DiscoverIdle
    /\ IgnoreIdle
    /\ ServeIdle
    /\ AssertIdle
    /\ FmtIdle
    /\ ExecIdle
    /\ DescribeIdle

SaveFrame == /\ OthersFrame
             /\ UNCHANGED <<disc, ign, srv, asrt, fmtf, exe, desc>>

\* os.OpenFile(loc, os.O_CREATE|os.O_WRONLY, 0644): the file is created when it
\* is absent, an existing file is opened as it is, the offset is 0
OpenResultFile ==
    /\ sav.pc = "open"
    /\ sav' = [sav EXCEPT !.pc = "copy", !.exists = TRUE]
    /\ SaveFrame

\* io.Copy(fout, fin): the bytes of the artifact are written from offset 0 on,
\* what the file holds beyond them stays
CopyArtifact ==
    /\ sav.pc = "copy"
    /\ sav' = [sav EXCEPT !.pc = "saved", !.saves = @ + 1,
                  !.loc = sav.br \o SubSeq(sav.loc, Len(sav.br) + 1, Len(sav.loc))]
    /\ SaveFrame

\* --watch: a source changes, the rebuild succeeds with a new artifact and
\* saveBuildResult is called again
RebuildAndSave ==
    /\ sav.pc = "saved"
    /\ sav.saves < MaxSaves
    /\ \E a \in Artifacts : sav' = [sav EXCEPT !.pc = "open", !.br = a]
    /\ SaveFrame

NextSave ==
    \/ OpenResultFile
    \/ CopyArtifact
    \/ RebuildAndSave

SpecSave == InitSave /\ [][NextSave]_vars

\* ------------------------------------------------------------------ claims: the scheduler
IndexOf(seq, x) == CHOOSE i \in DOMAIN seq : seq[i] = x
InSeq(seq, x) == \E i \in DOMAIN seq : seq[i] = x

\* C1: while the builder of a package runs, every transitive dependency of it is
\* complete and present in the local cache, no build ever meets a dependency that
\* is not built, and with one task at a time the build starts are in topological
\* order: every started dependency of a started package started before it.
C1_DependenciesFirst ==
    /\ \A p \in Pkgs : st[p] \in InFlight =>
          \A q \in GetTransitiveDependencies(deps, p) :
              st[q] \in Complete /\ LocalCache[q] = "complete"
    /\ \A p \in Pkgs : st[p] # "notbuilt"
    /\ jFlag = 1 =>
          \A i \in DOMAIN started : \A q \in GetTransitiveDependencies(deps, started[i]) :
              InSeq(started, q) => IndexOf(started, q) < i

C1_Witness ==
    /\ jFlag = 1
    /\ Len(started) = NPkgs
    /\ st[Target] = "packaging"
    /\ Cardinality(GetTransitiveDependencies(deps, Target)) = NPkgs - 1
    /\ deps[Target] # Pkgs \ {Target}

\* C2: a package is handed to its builder only when the local cache does not hold
\* its artifact; a runnable package whose artifact is there (left by the download
\* from a remote cache included) is reported as cached at once.
C2_NeverBuildsCached ==
    [][\A p \in Pkgs :
          /\ (st[p] # "building" /\ st'[p] = "building") =>
                (st[p] = "pending" /\ ~Location(LocalCache, p))
          /\ (st[p] = "pending" /\ st'[p] \in {"building", "cached"}) =>
                (st'[p] = "cached" <=> Location(LocalCache, p))
          /\ (st[p] # "cached" /\ st'[p] = "cached") => st[p] = "pending"]_vars

C2_Witness ==
    /\ <<"download", "primary">> \in ops
    /\ \E p \in Pkgs : st[p] = "cached" /\ p \in remote["primary"]
    /\ \E q \in Pkgs : st[q] \in InFlight

\* C3: with -j n, n > 0, at most n builders run at the same time; with -j 0 a
\* runnable package that has to be built starts however many builders run.
C3_ConcurrencyLimit ==
    /\ jFlag > 0 => Cardinality(Running(st)) <= jFlag
    /\ (jFlag = 0 /\ phase = "walk" /\ failures = <<>>) =>
          \A p \in Pkgs : Runnable(deps, st, p) => ENABLED Schedule(p)

C3_Witness ==
    /\ jFlag > 0
    /\ Cardinality(Running(st)) = jFlag
    /\ failures = <<>>
    /\ \E p \in Pkgs : Runnable(deps, st, p) /\ ~Location(LocalCache, p)

\* C4: once a build failed no pending task starts (or is reported cached), the
\* builders in flight can still go on to insert their artifact, Build returns only
\* when none is in flight, and what it returns after a failure is the failure
\* that occurred first.
C4_FirstFailureWins ==
    [][/\ failures # <<>> =>
            \A p \in Pkgs : st[p] = "pending" => st'[p] \in {"pending", "cancelled"}
       /\ (failures # <<>> /\ phase = "walk") =>
            \A p \in Pkgs : /\ st[p] = "building" => ENABLED Pack(p)
                            /\ st[p] = "packaging" => ENABLED Insert(p)
       /\ (phase = "walk" /\ phase' = "done") =>
            /\ Running(st) = {}
            /\ failures # <<>> => result' = [status |-> "failed", pkg |-> failures[1]]
            /\ failures = <<>> => result'.status = "ok"]_vars

C4_Witness ==
    /\ phase = "done"
    /\ Len(failures) >= 2
    /\ result = [status |-> "failed", pkg |-> failures[1]]
    /\ \E p \in Pkgs : st[p] = "cancelled"

\* C5: the local cache holds nothing, complete or partial, under the version of a
\* package whose build failed, and the complete artifact of every package built in
\* the run is still there.
C5_NoArtifactOfFailedBuild ==
    /\ \A p \in Pkgs : st[p] \in Failed => LocalCache[p] = "absent"
    /\ \A p \in Pkgs : st[p] = "built" => LocalCache[p] = "complete"
    /\ \A p \in Pkgs : LocalCache[p] # "partial"

C5_Witness ==
    /\ phase = "done"
    /\ \E p \in Pkgs : st[p] = "failed" /\ LocalCache[p] = "absent"
    /\ \E q \in Pkgs : st[q] = "built" /\ LocalCache[q] = "complete"

\* ------------------------------------------------------------------ claims: the caches
Downloaded == {o \in ops : o[1] = "download"}
Uploaded == {o \in ops : o[1] = "upload"}

\* C7 (as claimed): none and local reach no remote cache, remote-pull uploads to
\* none, remote-push downloads from none (the caches added with --add-remote-cache
\* included), and any other level aborts before a build.
C7_LevelFixesRemoteOperations ==
    /\ cacheLevel \in {"none", "local"} => ops = {}
    /\ cacheLevel = "remote-pull" => Uploaded = {}
    /\ cacheLevel = "remote-push" => Downloaded = {}
    /\ (runs > 0 /\ cacheLevel \notin CacheLevels) =>
          (phase = "fatal" /\ started = <<>> /\ ops = {})

\* C8 (as claimed): a run with cache=none that succeeds has built every package of
\* the closure; a run with cache=local after a successful run over the same cache
\* directory has built none and reported all as cached.
C8_NoneBuildsAllLocalBuildsNone ==
    (phase = "done" /\ result.status = "ok") =>
        /\ cacheLevel = "none" => \A p \in Closure(deps) : st[p] = "built"
        /\ (cacheLevel = "local" /\ prev.status = "ok" /\ prev.level # "none") =>
              (started = <<>> /\ \A p \in Closure(deps) : st[p] = "cached")

\* C6: whatever a task reading the cache finds at the target's location is the
\* complete artifact: a task that was told the artifact exists reads it whole, and
\* no final path ever holds a partly written file.
C6_InsertIsAtomic ==
    /\ \A r \in Readers : robs[r] \in {"none", "notpresent", "complete"}
    /\ \A r \in Readers : rpc[r] = "located" => fs["cachedir"][Target] = "complete"
    /\ \A p \in Pkgs : fs["cachedir"][p] # "partial"

C6_Witness ==
    /\ tmp[Target] = "partial"
    /\ \E r1, r2 \in Readers : robs[r1] = "notpresent" /\ rpc[r2] = "idle"

\* ------------------------------------------------------------------ claims: cycles
OnCycle(d, p) == p \in Reach(d, {p}, {})
Acyclic(d) == \A p \in DOMAIN d : ~OnCycle(d, p)
Range(seq) == {seq[i] : i \in DOMAIN seq}

\* an ordered path along dependency edges that ends where it starts
IsCyclePath(d, c) ==
    /\ Len(c) >= 2
    /\ c[1] = c[Len(c)]
    /\ \A i \in 1..(Len(c) - 1) : c[i + 1] \in d[c[i]]

\* C9: when some package lies on a dependency cycle the load does not succeed,
\* a failed load carries a path along dependency edges that starts and ends at the
\* same package, and so does every cycle findCycle returns, from every package
\* (findCycle is evaluated on the linked application, before the loop starts).
C9_CycleFailsLoad ==
    /\ (\E p \in CPkgs : OnCycle(deps, p)) => loadState # "loaded"
    /\ ((\E p \in CPkgs : OnCycle(deps, p)) /\ \A p \in CPkgs : OnCycle(deps, p) => p \notin todo)
          => loadState = "failed"
    /\ loadState = "failed" => IsCyclePath(deps, loadErr)
    /\ todo = CPkgs =>
          \A p \in CPkgs : \A r \in findCycle(deps, index, p) :
              /\ OnCycle(deps, p) => (~r.err /\ r.cycle # <<>>)
              /\ r.cycle # <<>> => IsCyclePath(deps, r.cycle)

C9_Witness ==
    /\ loadState = "failed"
    /\ Len(loadErr) = 3
    /\ Cardinality(todo) = NCyclePkgs - 1
    /\ \E q \in CPkgs : q \notin todo /\ q \notin Range(loadErr)

\* C10: in a graph without cycles findCycle returns neither a cycle nor an error
\* for any package, so the load warns about none, does not fail, and ends loaded.
C10_AcyclicLoads ==
    Acyclic(deps) =>
        /\ todo = CPkgs => \A p \in CPkgs : findCycle(deps, index, p) = {NoCycle}
        /\ loadState \in {"checking", "loaded"}
        /\ warned = {}
        /\ loadErr = <<>>
        /\ (loadState = "checking" /\ todo = {}) => ENABLED LoadDone

C10_Witness ==
    /\ loadState = "loaded"
    /\ Acyclic(deps)
    /\ \A p \in CPkgs : deps[p] = 1..(p - 1)

\* ------------------------------------------------------------------ claims: the loader
\* C11: when the depth-limited search of a package exceeds the package count
\* of a corrupt index, findCycle returns the depth error and the load fails
\* with that error (not with a cycle, and never going on to load).
C11_IndexCorruptFailsLoad ==
    /\ (index = {} /\ todo = CPkgs) =>
          \A p \in CPkgs : deps[p] # {} => findCycle(deps, index, p) = {DepthExceeded}
    /\ warned # {} => (loadState = "failed" /\ loadErr = <<>>)

\* what the two loads were given and returned
First == loads[1]
Second == loads[2]
RawNode(l, p) == Node(l.appl.pkgs[p], deps[p])
SourcesOf(l, p) ==
    ContentManifest(l.appl.files, resolveSources(l.appl.files, l.rfc[p].srcs))
OthersUnchanged(p) ==
    /\ \A q \in DOMAIN appl.pkgs \ {p} : First.appl.pkgs[q] = Second.appl.pkgs[q]
    /\ First.appl.const = Second.appl.const
    /\ First.appl.files = Second.appl.files
    /\ First.args = Second.args

C13_DependentsChangeVersion ==
    Len(loads) = 2 =>
        \A x \in DOMAIN appl.pkgs, y \in DOMAIN appl.pkgs :
            (RawNode(First, x) # RawNode(Second, x) /\ OthersUnchanged(x)
             /\ x \in GetTransitiveDependencies(deps, y))
                => First.version[y] # Second.version[y]

C13_Witness ==
    /\ Len(loads) = 2
    /\ \E x \in DOMAIN appl.pkgs, y \in DOMAIN appl.pkgs :
          /\ RawNode(First, x) # RawNode(Second, x)
          /\ x \in GetTransitiveDependencies(deps, y) \ deps[y]
          /\ First.version[y] # Second.version[y]

\* the packages whose definition or sources differ between the two loads
Changed == {x \in DOMAIN appl.pkgs :
               \/ RawNode(First, x) # RawNode(Second, x)
               \/ SourcesOf(First, x) # SourcesOf(Second, x)}

\* C17: a change to the definition or the sources of package X leaves the
\* version of every package unchanged that neither is X nor depends on X; a
\* package without dependencies keeps its version whatever happens to others.
C17_OthersKeepVersion ==
    Len(loads) = 2 =>
        \A y \in DOMAIN appl.pkgs :
            /\ (\A x \in Changed : y # x /\ x \notin GetTransitiveDependencies(deps, y))
                  => First.version[y] = Second.version[y]
            /\ (deps[y] = {} /\ y \notin Changed)
                  => First.version[y] = Second.version[y]

C17_Witness ==
    /\ Len(loads) = 2
    /\ \E x \in Changed, y \in DOMAIN appl.pkgs \ Changed, z \in DOMAIN appl.pkgs :
          /\ SourcesOf(First, x) # SourcesOf(Second, x)
          /\ x \notin GetTransitiveDependencies(deps, y)
          /\ First.version[y] = Second.version[y]
          /\ x \in deps[z]
          /\ First.version[z] # Second.version[z]

\* the value of build argument n in a load: from the merged arguments
ArgValue(l, n) == IF n \in DOMAIN l.args THEN l.args[n] ELSE NotSet

\* the two loads differ in the -D flags alone, and so in the value of n
OnlyArgDiffers(n) ==
    /\ Len(loads) = 2
    /\ First.appl.pkgs = Second.appl.pkgs
    /\ First.appl.const = Second.appl.const
    /\ First.appl.files = Second.appl.files
    /\ First.appl.defaults = Second.appl.defaults
    /\ ArgValue(First, n) # ArgValue(Second, n)
    /\ \A k \in ArgNames \ {n} : ArgValue(First, k) = ArgValue(Second, k)

TakesArg(p, n) ==
    \E q \in {p} \cup GetTransitiveDependencies(deps, p) :
        n \in appl.pkgs[q].argdeps \/ appl.pkgs[q].srcs = Ref(n)

C15_ListedArgChangesVersion ==
    \A n \in ArgNames : OnlyArgDiffers(n) =>
        \A p \in DOMAIN appl.pkgs :
            n \in appl.pkgs[p].argdeps => First.version[p] # Second.version[p]

C15_Witness ==
    /\ OnlyArgDiffers("msg")
    /\ First.appl.flags = EmptyArgs
    /\ First.appl.defaults # EmptyArgs
    /\ ArgValue(First, "msg") = First.appl.defaults["msg"]
    /\ \E p \in DOMAIN appl.pkgs :
          /\ "msg" \in appl.pkgs[p].argdeps
          /\ appl.pkgs[p].srcs = Lit("a")
          /\ First.version[p] # Second.version[p]

\* the two loads differ in the constant n of the component alone
OnlyConstDiffers(n) ==
    /\ Len(loads) = 2
    /\ First.appl.pkgs = Second.appl.pkgs
    /\ First.appl.files = Second.appl.files
    /\ First.appl.flags = Second.appl.flags
    /\ First.appl.defaults = Second.appl.defaults
    /\ n \in DOMAIN Second.appl.const
    /\ n \in DOMAIN First.appl.const => First.appl.const[n] # Second.appl.const[n]

\* no definition of the component refers to ${n}
Unreferenced(n) ==
    \A p \in DOMAIN appl.pkgs : appl.pkgs[p].srcs # Ref(n) /\ appl.pkgs[p].config # Ref(n)

\* C16: adding or changing a constant of the component that no package
\* definition refers to leaves the version of every package unchanged.
C16_UnreferencedConstKeepsVersions ==
    \A n \in ConstNames : (OnlyConstDiffers(n) /\ Unreferenced(n)) =>
        \A p \in DOMAIN appl.pkgs : First.version[p] = Second.version[p]

C16_Witness ==
    /\ OnlyConstDiffers("msg")
    /\ Unreferenced("msg")
    /\ "msg" \notin DOMAIN First.appl.const
    /\ First.args # EmptyArgs
    /\ \E p \in DOMAIN appl.pkgs : "msg" \in appl.pkgs[p].argdeps
    /\ \A p \in DOMAIN appl.pkgs : First.version[p] = Second.version[p]

\* C20: in every load, whatever the argument map, every ${name} whose name
\* is in the component's argument map (the build arguments overridden by the
\* constants) is replaced by the value of that map, and other names stay.
C20_EveryReferenceReplaced ==
    \A i \in DOMAIN loads :
        LET compargs == Override(loads[i].args, loads[i].appl.const)
            Expected(t) == IF t.ref /\ t.s \in DOMAIN compargs
                           THEN Lit(compargs[t.s]) ELSE t
        IN \A p \in DOMAIN loads[i].rfc :
              /\ loads[i].rfc[p].srcs = Expected(loads[i].appl.pkgs[p].srcs)
              /\ loads[i].rfc[p].config = Expected(loads[i].appl.pkgs[p].config)

\* C19: a key set with -D keeps the user's value; in nested mode a key of the
\* root's defaultArgs that the user did not set has the root's value in every
\* application, also where an inner application sets it; a key that only the
\* application's own defaultArgs set has that default.
C19_ArgumentPrecedence ==
    \A a \in DOMAIN loadedArgs : \A k \in DefaultKeys :
        LET m == loadedArgs[a].m
        IN /\ k \in DOMAIN buildArgs => (k \in DOMAIN m /\ m[k] = buildArgs[k])
           /\ (nested /\ k \notin DOMAIN buildArgs /\ k \in DOMAIN defaultArgs[rootWS])
                 => (k \in DOMAIN m /\ m[k] = defaultArgs[rootWS][k])
           /\ (k \notin DOMAIN buildArgs /\ k \in DOMAIN defaultArgs[a]
               /\ ~(nested /\ k \in DOMAIN defaultArgs[rootWS]))
                 => (k \in DOMAIN m /\ m[k] = defaultArgs[a][k])

C19_Witness ==
    /\ nested /\ rootWS = "root" /\ toLoad = <<>>
    /\ DOMAIN buildArgs = {"tag"}
    /\ \A a \in Apps : DOMAIN defaultArgs[a] = DefaultKeys
    /\ defaultArgs["root"]["msg"] # defaultArgs["inner"]["msg"]
    /\ buildArgs["tag"] # defaultArgs["root"]["tag"]
    /\ loadedArgs["inner"].m["msg"] = defaultArgs["root"]["msg"]
    /\ loadedArgs["inner"].m["tag"] = buildArgs["tag"]

\* C18: the version of a package is computed at most once per process, and
\* every caller of Version(), in every interleaving, gets the same value: the
\* one the single computation stored.
C18_VersionComputedOnce ==
    /\ computations <= 1
    /\ \A c \in Callers, d \in Callers :
          (vpc[c] = "done" /\ vpc[d] = "done") => got[c] = got[d]
    /\ \A c \in Callers : vpc[c] = "done" => (computations = 1 /\ got[c] = versionCache)

C18_Witness ==
    /\ \A c \in Callers : vpc[c] = "done"
    /\ computations = 1
    /\ versionCache # HashOf(source)

\* ------------------------------------------------------------------ claims: variants and nesting
\* C21: after the pass of a variant that excludes a component, the dependency
\* list of a surviving package names no package of the excluded component and
\* still names every dependency on another component, for any number and any
\* position of excluded dependencies, and the pass does not crash
C21_ExcludedDependenciesRemoved ==
    /\ flt.pc # "panic"
    /\ flt.pc = "done" =>
        /\ \A k \in 1..flt.len : ~ExcludeComponent(flt.arr[k][1])
        /\ \A k \in DOMAIN flt.orig :
              ~ExcludeComponent(flt.orig[k][1])
                  => \E m \in 1..flt.len : flt.arr[m] = flt.orig[k]

\* C22: in nested mode, once the inner application is loaded each of its
\* packages is in the root's index under <inner path>/<inner full name>, a root
\* package may depend on it, and a dependency of an inner package on a package
\* of the root makes the load fail
C22_OuterDependsOnInner ==
    (find.pc = "done" /\ tree.nested /\ tree.innerWS) =>
        IF tree.depOut
        THEN find.res.err = "unknown package"
        ELSE /\ find.res.err = ""
             /\ find.res.Origin = RootDir
             /\ \A k \in DOMAIN find.loadedApplications[InnerDir].Packages :
                   /\ (<<"inner", "/">> \o k) \in DOMAIN find.res.Packages
                   /\ find.res.Packages[<<"inner", "/">> \o k]
                          = find.loadedApplications[InnerDir].Packages[k]

C22_Witness ==
    /\ find.pc = "done" /\ tree.nested /\ tree.innerWS
    /\ tree.depOn /\ ~tree.depOut
    /\ find.res.err = ""
    /\ LibApp \in find.res.Packages[<<"comp", ":", "app">>].Dependencies
    /\ find.res.Packages[LibApp].C.W = InnerDir

\* C23: in nested mode a variant that only the nested application defines,
\* selected by name or as its default variant, changes the sources and the
\* environment of no package of the loaded application
C23_NestedVariantsIgnored ==
    (/\ find.pc = "done" /\ tree.nested /\ tree.innerWS /\ find.res.err = ""
     /\ IF tree.variant = "" THEN ~tree.defaultVariant[RootDir]
        ELSE tree.variant \notin tree.variants[RootDir]) =>
        \A k \in DOMAIN find.res.Packages :
            /\ find.res.Packages[k].Sources = PackageSources
            /\ find.res.Packages[k].Environment = <<>>

\* C24: without nested support the components loaded are those that are not in
\* or below a directory with another APPLICATION.yaml, and a dependency of a
\* root package on a package of such a directory fails the load as unknown
C24_NestedDirectoriesIgnored ==
    (find.pc = "done" /\ ~tree.nested) =>
        /\ find.res.Components =
              {ComponentName(d, RootDir) :
                  d \in {c \in ComponentDirs(tree) :
                            \A a \in ApplicationDirs(tree) \ {RootDir} :
                                ~(c = a \/ HasPrefix(c, a \o <<"/">>))}}
        /\ (tree.innerWS /\ tree.depOn) => find.res.err = "unknown package"

\* ------------------------------------------------------------------ claims: environment manifest
\* the last entry of that name the user lists
UserEntry(n) ==
    env.entries[CHOOSE i \in DOMAIN env.entries :
                    /\ env.entries[i].Name = n
                    /\ \A j \in DOMAIN env.entries : env.entries[j].Name = n => j <= i]
DefaultEntries ==
    defaultEnvManifestEntries("") \cup UNION {defaultEnvManifestEntries(t) : t \in env.pkgtpes}
\* the entry the manifest is to hold under name n
Effective(n) ==
    IF \E i \in DOMAIN env.entries : env.entries[i].Name = n THEN UserEntry(n)
    ELSE CHOOSE e \in DefaultEntries : e.Name = n
EffectiveNames ==
    {e.Name : e \in DefaultEntries} \cup {env.entries[i].Name : i \in DOMAIN env.entries}

\* C25: the resolved environment manifest has exactly one entry per name of the
\* built-in entries, the defaults of the package types used and the user's
\* entries, a user's entry replacing a default of its name; it is sorted
\* ascending by name; the load fails when the command of an entry fails
C25_ManifestOnePerNameSorted ==
    env.pc = "done" =>
        IF \E n \in EffectiveNames : Effective(n).Command \in env.failing
        THEN env.err # ""
        ELSE /\ env.err = ""
             /\ Len(env.sorted) = Cardinality(EffectiveNames)
             /\ \A n \in EffectiveNames :
                    \E i \in DOMAIN env.sorted :
                        /\ env.sorted[i].Name = n
                        /\ env.sorted[i].Command = Effective(n).Command
             /\ \A i, j \in DOMAIN env.sorted :
                    i < j => Rank(env.sorted[i].Name) < Rank(env.sorted[j].Name)

C25_Witness ==
    /\ env.pc = "done" /\ env.err = ""
    /\ "go" \in env.pkgtpes /\ "go version" \in env.failing
    /\ \E i \in DOMAIN env.sorted :
          env.sorted[i].Name = "go" /\ env.sorted[i].Command = "go env GOVERSION"
    /\ \E i \in DOMAIN env.sorted : env.sorted[i].Name = "gcc"

\* ------------------------------------------------------------------ claims: provenance
TransitiveDeps == GetTransitiveDependencies(deps, Target)
HowOften(line) == Cardinality({i \in DOMAIN prov.file : prov.file[i] = line})
\* the lines the bundle of the target is to hold
DependencyLines == UNION {BundleIn(deps, prov.archives, q) : q \in TransitiveDeps}
BundleComplete ==
    /\ \A line \in DependencyLines : HowOften(line) = 1
    /\ prov.slsa => \E i \in DOMAIN prov.file : prov.file[i].EntryPoint = Target
    /\ \A i \in DOMAIN prov.file :
          prov.file[i] \in DependencyLines \/ prov.file[i].EntryPoint = Target

C27_MaterialsFollowGitState ==
    prov.attempted =>
        IF prov.git.Commit # "" /\ prov.git.Origin # "" /\ ~prov.git.Dirty
        THEN /\ prov.produced.err = ""
             /\ prov.produced.env.Materials =
                    << [URI |-> <<"git+", prov.git.Origin>>, Digest |-> prov.git.Commit] >>
        ELSE /\ prov.produced.err = ""
             /\ prov.produced.env.Materials =
                    << [URI |-> <<"file://", "comp", "/", "main.go">>,
                        Digest |-> <<"sha256 of", "package main">>],
                       [URI |-> <<"file://", "comp", "/", "go.mod">>,
                        Digest |-> <<"sha256 of", "module comp">>] >>

\* ------------------------------------------------------------------ claims: watcher and vet
\* C28: as long as the context is not cancelled no change of a file that
\* matches the source patterns is beyond delivery on the changed channel,
\* however many events for other files came before it: the goroutine has not
\* returned with such an event unread, and no such change met a closed watcher
C28_MatchingEventsDelivered ==
    ~watch.cancelled =>
        /\ watch.pc = "returned" =>
              \A i \in DOMAIN watch.Events : ~Matches(SourceFolder, watch.Events[i])
        /\ \A i \in DOMAIN watch.missed : ~Matches(SourceFolder, watch.missed[i])

\* C29: gorpa vet exits with 128 when the run yields a finding that the
\* --ignore-warnings filter keeps and with 0 when it yields none, whether or
\* not a check returned an error
C29_ExitCodeFollowsFindings ==
    vet.pc = "exited" =>
        vet.exit = IF \E r \in DOMAIN vet.outcome :
                          \/ vet.outcome[r] = "error"
                          \/ vet.outcome[r] = "warning" /\ ~vet.ignoreWarnings
                   THEN 128 ELSE 0

\* ------------------------------------------------------------------ claims: empty source sets
\* the files the package is to have as sources
ExpectedSources ==
    ((IF lc.srcs = "*.go" THEN lc.files \cap GoFiles ELSE {}) \cup lc.additional)
        \ (IF lc.variant = "nogo" THEN GoFiles ELSE {})

NotExcluded == {k \in 1..NFiles : disc.variant = "none" \/ ~ExcludeComponent(disc.files[k].name)}
AllLoadsSucceed == \A k \in 1..NFiles : disc.files[k].load = "ok"
Returned == {disc.comps[i].file : i \in DOMAIN disc.comps}
\* discoverComponents has not returned and nothing can take a step
DiscoverStuck == disc.pc \notin {"returned", "error"} /\ ~ENABLED NextDiscover

\* C31: discoverComponents terminates for every number of BUILD.yaml files, also
\* more than the channel holds: no state short of its return is without a next
\* step, no goroutine sends on the closed channel; when every load succeeds it
\* returns each component the variant does not exclude exactly once, when a load
\* fails it returns an error.
C31_DiscoverTerminates ==
    /\ ~DiscoverStuck
    /\ disc.crashed = ""
    /\ disc.pc = "returned" =>
          /\ AllLoadsSucceed
          /\ Returned = NotExcluded
          /\ Len(disc.comps) = Cardinality(NotExcluded)
    /\ disc.pc = "error" => ~AllLoadsSucceed

\* the same, for the runs in which the dependency pass of filterExcludedComponents
\* does not run off the end of the slice
C31_DiscoverTerminatesUnlessFilterPanics ==
    /\ disc.crashed # "send on closed channel"
    /\ disc.crashed = "" =>
        /\ ~DiscoverStuck
        /\ disc.pc = "returned" =>
              /\ AllLoadsSucceed
              /\ Returned = NotExcluded
              /\ Len(disc.comps) = Cardinality(NotExcluded)
        /\ disc.pc = "error" => ~AllLoadsSucceed

\* ------------------------------------------------------------------ claims: .gorpaignore
\* the non-empty lines of .gorpaignore
PatternLines ==
    IF ign.exists THEN {l \in {Split(ign.fc, "\n")[i] : i \in DOMAIN Split(ign.fc, "\n")} : l # <<>>}
    ELSE {}
NestedDirectories == IF ign.nested THEN {InnerDir} ELSE {}

\* C32: a path is ignored only if it contains a non-empty line of .gorpaignore
\* or the directory of a nested application; an empty line, the one after a
\* trailing newline included, ignores no path.
C32_IgnoredOnlyByPattern ==
    \A path \in DiscoveredPaths :
        ign.asked[path] = "ignored" =>
            \E ptn \in PatternLines \cup NestedDirectories : Contains(path, ptn)

\* ------------------------------------------------------------------ claims: the end of the watcher
\* C33: after the context of WatchSources is cancelled, the goroutine eventually
\* returns and closes the file watcher, wherever it is at that moment, also in
\* the send of a change or of an error that nobody receives.
C33_CancelClosesWatcher == watch.cancelled ~> (watch.pc = "returned" /\ watch.closed)

\* ------------------------------------------------------------------ claims: build --watch --serve
\* C34: after a successful rebuild the previous server has released the listen
\* address before the new server listens on it, in every interleaving (no
\* ListenAndServe finds the address in use); a failed rebuild leaves the servers
\* as they are and the watch loop in its select.
C34_AddressReleasedBeforeListen ==
    /\ [](srv.fatal = "")
    /\ [][RebuildFails => /\ srv'.serve = srv.serve
                          /\ srv'.listener = srv.listener
                          /\ srv'.ctx = srv.ctx
                          /\ srv'.addr = srv.addr
                          /\ srv'.pc = "select"
                          /\ srv'.fatal = ""]_vars

\* ------------------------------------------------------------------ claims: provenance assert
\* an envelope of the bundle violates an assertion whose flag is set
FlagViolated ==
    \E i \in DOMAIN asrt.bundle :
        \/ asrt.flags["built-with-gorpa"] /\ AssertBuiltWithGorpa(asrt.bundle[i])
        \/ /\ asrt.flags["built-with-gorpa-version"] # ""
           /\ AssertBuiltWithGorpaVersion(asrt.flags["built-with-gorpa-version"], asrt.bundle[i])
        \/ asrt.flags["git-only"] /\ AssertGitMaterialOnly(asrt.bundle[i])

\* C35: provenance assert applies every assertion whose flag is set to every
\* envelope of the bundle: it fails when an envelope was not built by this tool
\* (--built-with-gorpa), was built by another version of it
\* (--built-with-gorpa-version) or has a non-git material (--git-only), and
\* succeeds when no envelope violates a set flag.
C35_SetFlagsAreAsserted ==
    asrt.pc = "done" => (asrt.exit = 1 <=> FlagViolated)

\* ------------------------------------------------------------------ claims: fmt
\* C36: when fmt -i fails on a BUILD.yaml (the file is not valid YAML, say) the
\* file holds afterwards what it held before; it is rewritten only when the
\* formatting has succeeded.
C36_FailedFormatKeepsFile ==
    (fmtf.pc = "done" /\ fmtf.inPlace /\ fmtf.err # "") => fmtf.file = fmtf.before

\* the package entries of a document, and an entry with its deps as a set
PackagesOf(doc) == doc.Content[1].Content[2].Content
DepsOf(pkg) ==
    LET d == searchInMapFor(pkg, "deps")
    IN IF d = 0 THEN <<>> ELSE [i \in DOMAIN pkg.Content[d].Content |-> pkg.Content[d].Content[i].Value]
Ascending(s) == \A i, j \in DOMAIN s : i < j => ~ValueLess(s[j], s[i])
Unordered(pkg) ==
    LET d == searchInMapFor(pkg, "deps")
    IN IF d = 0 THEN [entry |-> pkg, deps |-> {}]
       ELSE [entry |-> [pkg EXCEPT !.Content[d].Content = <<>>],
             deps |-> {DepsOf(pkg)[i] : i \in DOMAIN DepsOf(pkg)}]
Formatted == IF fmtf.inPlace THEN fmtf.file ELSE fmtf.stdout

\* C39: after FormatBUILDyaml the deps of every package of the component, not
\* only of the first, are in ascending order, and everything else of the file
\* is as it was (--fix not given).
C39_EveryPackageSorted ==
    (fmtf.pc = "done" /\ fmtf.err = "" /\ ~fmtf.fix) =>
        /\ Len(PackagesOf(Formatted.doc)) = Len(PackagesOf(fmtf.before.doc))
        /\ \A k \in DOMAIN PackagesOf(Formatted.doc) :
              /\ Ascending(DepsOf(PackagesOf(Formatted.doc)[k]))
              /\ Unordered(PackagesOf(Formatted.doc)[k]) = Unordered(PackagesOf(fmtf.before.doc)[k])

\* ------------------------------------------------------------------ claims: exec, describe
\* C37: exec --dependencies (without --transitive-dependencies) runs the command
\* for exactly the selected packages and their direct dependencies, whatever
\* the order of the range over the map; with --transitive-dependencies for
\* exactly the selected packages and their transitive dependencies.
C37_ExactlyTheDependencies ==
    exe.pc = "done" =>
        /\ exe.includeTransDeps =>
              exe.ran = Selected \cup UNION {GetTransitiveDependencies(deps, p) : p \in Selected}
        /\ (exe.includeDeps /\ ~exe.includeTransDeps) =>
              exe.ran = Selected \cup UNION {deps[p] : p \in Selected}

\* the packages no package lists as a dependency
RootPackages == {p \in Pkgs : \A q \in Pkgs : p \notin deps[q]}

\* C38: describe dependencies without a package prints a tree for exactly the
\* packages that no other package lists as a dependency, for every graph and
\* every order of the range over the index.
C38_ExactlyTheRoots == (desc.pc = "done" /\ desc.arg = 0) => desc.printed = RootPackages

\* ------------------------------------------------------------------ claims: build --save
\* C40: after build --save FILE the bytes of FILE are the bytes of the package's
\* artifact in the local cache, whatever FILE held before, also when it existed
\* and was longer than the artifact.
C40_SavedFileEqualsArtifact == sav.pc = "saved" => sav.loc = sav.br

====
